---- MODULE Spec2Model ----
(***************************************************************************)
(* Model of siem/__init__.py (es_loader): the nested-dictionary helpers    *)
(* get_value_from_dict, put_value_into_dict and merge, the source adapters *)
(* LogS3 and LogKinesis, and the per-entry LogParser pipeline.             *)
(*                                                                         *)
(* Python values are tagged records [t, v]:                                *)
(*   str  : v is the sequence of the string's characters (one-character    *)
(*          TLA+ strings; control characters are the symbols LF, TAB, ...) *)
(*   int  : v is the integer                                               *)
(*   dict : v is a function from keys (character sequences) to values      *)
(*   list : v is a sequence of values                                      *)
(*   None : v is 0                                                         *)
(***************************************************************************)
EXTENDS Integers, Sequences, FiniteSets, TLC

VARIABLES
    pathPc, key_str, v_in, new_dict, dct, xkeys_list, got,
    parserPc, logdata, meta, logconfig, logdata_dict, utcnow, timestamp, event_ingested,
    output,
    adapterPc, record, config, rawdata_dict, ignore, own_file_format, gen, outcomes

pathVars == <<pathPc, key_str, v_in, new_dict, dct, xkeys_list, got>>
parserVars == <<parserPc, logdata, meta, logconfig, logdata_dict, utcnow, timestamp,
                event_ingested, output>>
adapterVars == <<adapterPc, record, config, rawdata_dict, ignore, own_file_format, gen,
                 outcomes>>
vars == <<pathVars, parserVars, adapterVars>>

----------------------------------------------------------------------------
(* Python values *)

PyStr(s) == [t |-> "str", v |-> s]
PyInt(n) == [t |-> "int", v |-> n]
PyDict(m) == [t |-> "dict", v |-> m]
PyList(l) == [t |-> "list", v |-> l]
None == [t |-> "None", v |-> 0]

EmptyMap == [k \in {} |-> None]
EmptyStr == PyStr(<< >>)

IsDict(x) == x.t = "dict"
IsStr(x) == x.t = "str"
IsInt(x) == x.t = "int"
IsList(x) == x.t = "list"

(* Python == on the values of the model (no int/str coercion) *)
PyEq(a, b) == a.t = b.t /\ a.v = b.v

(* F applied to the value of e, which is computed once (a local variable) *)
Bind(e, F(_)) == CHOOSE r \in {F(x) : x \in {e}} : TRUE

(* bool(x): the truth value Python's `if v:` tests *)
Truthy(x) ==
    CASE x.t = "str" -> x.v # << >>
      [] x.t = "int" -> x.v # 0
      [] x.t = "dict" -> DOMAIN x.v # {}
      [] x.t = "list" -> x.v # << >>
      [] OTHER -> FALSE

(* {k: val}: a dict of one key *)
One(k, val) == [x \in {k} |-> val]

(* d with d[k] = val *)
SetKey(d, k, val) == [x \in DOMAIN d \cup {k} |-> IF x = k THEN val ELSE d[x]]

(* d with del d[k] *)
DelKey(d, k) == [x \in DOMAIN d \ {k} |-> d[x]]

----------------------------------------------------------------------------
(* Strings *)

Digits == <<"0", "1", "2", "3", "4", "5", "6", "7", "8", "9">>
DigitSet == {Digits[i] : i \in 1..10}
DigitVal(c) == (CHOOSE i \in 1..10 : Digits[i] = c) - 1

RECURSIVE NatStr(_)
NatStr(n) == IF n < 10 THEN <<Digits[n + 1]>>
             ELSE NatStr(n \div 10) \o <<Digits[(n % 10) + 1]>>

(* str(n) of an int *)
IntStr(n) == IF n < 0 THEN <<"-">> \o NatStr(0 - n) ELSE NatStr(n)

RECURSIVE DigitsVal(_, _)
DigitsVal(s, acc) == IF s = << >> THEN acc
                     ELSE DigitsVal(Tail(s), acc * 10 + DigitVal(Head(s)))

AllDigits(s) == s # << >> /\ \A i \in 1..Len(s) : s[i] \in DigitSet

(* int(k) succeeds: an optional sign and decimal digits *)
IsIntLiteral(s) ==
    \/ AllDigits(s)
    \/ Len(s) >= 2 /\ s[1] \in {"+", "-"} /\ AllDigits(Tail(s))

IntOfLiteral(s) ==
    IF s[1] = "-" THEN 0 - DigitsVal(Tail(s), 0)
    ELSE IF s[1] = "+" THEN DigitsVal(Tail(s), 0)
    ELSE DigitsVal(s, 0)

(* s.split(sep) for a one-character separator: empty pieces are kept *)
RECURSIVE SplitOn(_, _, _)
SplitOn(s, sep, cur) ==
    IF s = << >> THEN <<cur>>
    ELSE IF Head(s) = sep THEN <<cur>> \o SplitOn(Tail(s), sep, << >>)
    ELSE SplitOn(Tail(s), sep, Append(cur, Head(s)))

SplitDot(s) == SplitOn(s, ".", << >>)

(* s.split(): on runs of whitespace, empty pieces dropped *)
SplitWs(s) == SelectSeq(SplitOn(s, " ", << >>), LAMBDA p : p # << >>)

(* needle in hay, for strings *)
IsSubstr(needle, hay) ==
    \E i \in 0..(Len(hay) - Len(needle)) :
        \A j \in 1..Len(needle) : hay[i + j] = needle[j]

Concat(a, b) == a \o b

RECURSIVE FlattenSeq(_)
FlattenSeq(ss) ==
    IF ss = << >> THEN << >>
    ELSE IF Len(ss) = 1 THEN ss[1]
    ELSE FlattenSeq(SubSeq(ss, 1, Len(ss) \div 2))
         \o FlattenSeq(SubSeq(ss, Len(ss) \div 2 + 1, Len(ss)))

(* sep.join(parts) *)
RECURSIVE Join(_, _)
Join(sep, parts) ==
    IF parts = << >> THEN << >>
    ELSE IF Len(parts) = 1 THEN parts[1]
    ELSE parts[1] \o sep \o Join(sep, Tail(parts))

(* the keys of a dict in iteration order (any fixed order) *)
RECURSIVE KeySeq(_)
KeySeq(S) == IF S = {} THEN << >>
             ELSE LET k == CHOOSE x \in S : TRUE IN <<k>> \o KeySeq(S \ {k})

----------------------------------------------------------------------------
(* json.dumps and json.loads(strict=False), over character sequences *)

HexSet == DigitSet \cup {"a", "b", "c", "d", "e", "f", "A", "B", "C", "D", "E", "F"}

(* the character a backslash escape stands for; control characters are symbols *)
Unescape(e) ==
    CASE e = "\"" -> "\""
      [] e = "\\" -> "\\"
      [] e = "/" -> "/"
      [] e = "b" -> "BS"
      [] e = "f" -> "FF"
      [] e = "n" -> "LF"
      [] e = "r" -> "CR"
      [] e = "t" -> "TAB"

EscapeSet == {"\"", "\\", "/", "b", "f", "n", "r", "t"}

(* json.dumps of one character of a string *)
EscapeChar(c) ==
    CASE c = "\"" -> <<"\\", "\"">>
      [] c = "\\" -> <<"\\", "\\">>
      [] c = "BS" -> <<"\\", "b">>
      [] c = "FF" -> <<"\\", "f">>
      [] c = "LF" -> <<"\\", "n">>
      [] c = "CR" -> <<"\\", "r">>
      [] c = "TAB" -> <<"\\", "t">>
      [] OTHER -> <<c>>

DumpsStr(s) == <<"\"">> \o FlattenSeq([i \in 1..Len(s) |-> EscapeChar(s[i])]) \o <<"\"">>

RECURSIVE Dumps(_)
Dumps(x) ==
    CASE x.t = "str" -> DumpsStr(x.v)
      [] x.t = "int" -> IntStr(x.v)
      [] x.t = "None" -> <<"n", "u", "l", "l">>
      [] x.t = "list" ->
            <<"[">> \o Join(<<",", " ">>, [i \in 1..Len(x.v) |-> Dumps(x.v[i])]) \o <<"]">>
      [] x.t = "dict" ->
            LET ks == KeySeq(DOMAIN x.v) IN
            <<"{">> \o Join(<<",", " ">>,
                        [i \in 1..Len(ks) |->
                            DumpsStr(ks[i]) \o <<":", " ">> \o Dumps(x.v[ks[i]])])
                \o <<"}">>

ParseFail == [ok |-> FALSE, val |-> None, rest |-> << >>]
ParseOk(val, rest) == [ok |-> TRUE, val |-> val, rest |-> rest]

WsSet == {" ", "LF", "CR", "TAB"}

RECURSIVE SkipWs(_)
SkipWs(s) == IF s # << >> /\ Head(s) \in WsSet THEN SkipWs(Tail(s)) ELSE s

(* the number of backslashes that stand directly before s[i] *)
BackslashesBefore(s, i) ==
    CHOOSE k \in 0..(i - 1) :
        /\ \A m \in 1..k : s[i - m] = "\\"
        /\ k = i - 1 \/ s[i - k - 1] # "\\"

(* s[i] is a quote, or a backslash, that no backslash before it escapes *)
Unescaped(s, i, c) == s[i] = c /\ BackslashesBefore(s, i) % 2 = 0

ValidEscape(s, i) ==
    /\ i < Len(s)
    /\ \/ s[i + 1] \in EscapeSet
       \/ s[i + 1] = "u" /\ i + 5 <= Len(s) /\ \A m \in 2..5 : s[i + m] \in HexSet

(* s[i] belongs to the escape that starts before it *)
InEscape(s, i) ==
    \/ i > 1 /\ Unescaped(s, i - 1, "\\")
    \/ \E m \in 2..5 : i - m >= 1 /\ Unescaped(s, i - m, "\\") /\ s[i - m + 1] = "u"

(* the characters the body of a string literal stands for *)
Unescapes(body) ==
    SelectSeq([i \in 1..Len(body) |->
                  IF Unescaped(body, i, "\\")
                  THEN (IF body[i + 1] = "u" THEN "UNI" ELSE Unescape(body[i + 1]))
                  ELSE IF InEscape(body, i) THEN "DROP"
                  ELSE body[i]],
              LAMBDA c : c # "DROP")

(* the string whose opening quote was just read; strict=False admits control characters *)
ScanString(s, acc) ==
    IF ~\E i \in 1..Len(s) : Unescaped(s, i, "\"") THEN ParseFail
    ELSE Bind(CHOOSE i \in 1..Len(s) :
                  Unescaped(s, i, "\"") /\ \A j \in 1..(i - 1) : ~Unescaped(s, j, "\""),
              LAMBDA e :
         Bind(SubSeq(s, 1, e - 1), LAMBDA body :
            IF \E i \in 1..Len(body) : Unescaped(body, i, "\\") /\ ~ValidEscape(body, i)
            THEN ParseFail
            ELSE ParseOk(PyStr(acc \o Unescapes(body)), SubSeq(s, e + 1, Len(s)))))

RECURSIVE TakeDigits(_)
TakeDigits(s) == IF s # << >> /\ Head(s) \in DigitSet
                 THEN <<Head(s)>> \o TakeDigits(Tail(s)) ELSE << >>

(* an integer literal (the only numbers json.dumps writes for the model's values) *)
ParseNumber(s) ==
    Bind(s # << >> /\ Head(s) = "-", LAMBDA neg :
    Bind(IF neg THEN Tail(s) ELSE s, LAMBDA body :
    Bind(TakeDigits(body), LAMBDA ds :
    Bind(SubSeq(body, Len(ds) + 1, Len(body)), LAMBDA rest :
        IF ds = << >> THEN ParseFail
        ELSE IF ds[1] = "0" /\ Len(ds) > 1 THEN ParseFail
        ELSE IF rest # << >> /\ rest[1] \in {".", "e", "E"} THEN ParseFail
        ELSE ParseOk(PyInt(IF neg THEN 0 - DigitsVal(ds, 0) ELSE DigitsVal(ds, 0)), rest)))))

RECURSIVE ParseValue(_), ParseMember(_), ParseMembers(_, _), ParseElements(_, _)

(* after a member or an element: s2 starts at the ',' or at the closer *)
AfterItem(s2, closer, done, MoreItems(_)) ==
    IF s2 = << >> THEN ParseFail
    ELSE IF Head(s2) = closer THEN ParseOk(done, Tail(s2))
    ELSE IF Head(s2) = "," THEN MoreItems(Tail(s2))
    ELSE ParseFail

MemberFail == [ok |-> FALSE, key |-> << >>, val |-> None, rest |-> << >>]

(* s0 starts (after whitespace) at a member's key: the key, the value and the *)
(* text after the value and its whitespace                                     *)
ParseMember(s0) ==
    Bind(SkipWs(s0), LAMBDA s :
    IF s = << >> \/ Head(s) # "\"" THEN MemberFail
    ELSE Bind(ScanString(Tail(s), << >>), LAMBDA k :
         IF ~k.ok THEN MemberFail
         ELSE Bind(SkipWs(k.rest), LAMBDA s1 :
              IF s1 = << >> \/ Head(s1) # ":" THEN MemberFail
              ELSE Bind(ParseValue(Tail(s1)), LAMBDA val :
                   IF ~val.ok THEN MemberFail
                   ELSE [ok |-> TRUE, key |-> k.val.v, val |-> val.val,
                         rest |-> SkipWs(val.rest)]))))

(* the members from s0 on; acc is the object so far *)
ParseMembers(s0, acc) ==
    Bind(ParseMember(s0), LAMBDA member :
        IF ~member.ok THEN ParseFail
        ELSE AfterItem(member.rest, "}", PyDict(SetKey(acc, member.key, member.val)),
                       LAMBDA more : ParseMembers(more, SetKey(acc, member.key, member.val))))

ParseElements(s0, acc) ==
    Bind(ParseValue(s0), LAMBDA val :
        IF ~val.ok THEN ParseFail
        ELSE AfterItem(SkipWs(val.rest), "]", PyList(Append(acc, val.val)),
                       LAMBDA more : ParseElements(more, Append(acc, val.val))))

ParseValue(s0) ==
    Bind(SkipWs(s0), LAMBDA s :
    IF s = << >> THEN ParseFail
    ELSE CASE Head(s) = "\"" -> ScanString(Tail(s), << >>)
           [] Head(s) = "{" ->
                Bind(SkipWs(Tail(s)), LAMBDA s1 :
                    IF s1 # << >> /\ Head(s1) = "}" THEN ParseOk(PyDict(EmptyMap), Tail(s1))
                    ELSE ParseMembers(s1, EmptyMap))
           [] Head(s) = "[" ->
                Bind(SkipWs(Tail(s)), LAMBDA s1 :
                    IF s1 # << >> /\ Head(s1) = "]" THEN ParseOk(PyList(<< >>), Tail(s1))
                    ELSE ParseElements(s1, << >>))
           [] Head(s) = "-" \/ Head(s) \in DigitSet -> ParseNumber(s)
           [] Len(s) >= 4 /\ SubSeq(s, 1, 4) = <<"n", "u", "l", "l">> ->
                ParseOk(None, SubSeq(s, 5, Len(s)))
           [] OTHER -> ParseFail)

(* json.loads(text, strict=False): the value, or JSONDecodeError (ok = FALSE) *)
Loads(text) ==
    Bind(ParseValue(text), LAMBDA r :
        IF r.ok /\ SkipWs(r.rest) = << >> THEN r ELSE ParseFail)

----------------------------------------------------------------------------
(* get_value_from_dict *)

LookupError == [t |-> "LookupError", v |-> 0]

(* v[k] where k went through the int(k) attempt first; the TypeError, KeyError *)
(* and IndexError the code catches are LookupError                             *)
Subscript(x, k) ==
    LET isInt == IsIntLiteral(k)
        n == IntOfLiteral(k)
        len == Len(x.v)
        idx == IF n < 0 THEN n + len + 1 ELSE n + 1
    IN  CASE x.t = "dict" ->
                IF ~isInt /\ k \in DOMAIN x.v THEN x.v[k] ELSE LookupError
          [] x.t = "list" ->
                IF isInt /\ idx >= 1 /\ idx <= len THEN x.v[idx] ELSE LookupError
          [] x.t = "str" ->
                IF isInt /\ idx >= 1 /\ idx <= len THEN PyStr(<<x.v[idx]>>) ELSE LookupError
          [] OTHER -> LookupError

(* the inner loop: walk one dotted path; a failed step leaves '' *)
RECURSIVE WalkKeys(_, _)
WalkKeys(x, ks) ==
    IF ks = << >> THEN x
    ELSE Bind(Subscript(x, Head(ks)), LAMBDA nxt :
            IF nxt = LookupError THEN EmptyStr ELSE WalkKeys(nxt, Tail(ks)))

(* mutant: a later candidate that qualifies replaces an earlier one *)
RECURSIVE FirstTruthy_last(_, _)
FirstTruthy_last(d, cands) ==
    IF cands = << >> THEN None
    ELSE LET x == WalkKeys(d, SplitDot(Head(cands)))
             later == FirstTruthy_last(d, Tail(cands))
         IN  IF later # None THEN later ELSE IF Truthy(x) THEN x ELSE None

RECURSIVE FirstTruthy(_, _)
FirstTruthy(d, cands) ==
    IF cands = << >> THEN None
    ELSE Bind(WalkKeys(d, SplitDot(Head(cands))), LAMBDA x :
            IF Truthy(x) THEN x ELSE FirstTruthy(d, Tail(cands)))

get_value_from_dict(d, xkeys) == FirstTruthy(d, SplitWs(xkeys))

----------------------------------------------------------------------------
(* put_value_into_dict *)

DROPPED == <<"D", "R", "O", "P", "P", "E", "D">>
RecursionError == [t |-> "RecursionError", v |-> 0]

(* repr() of a string *)
ReprChar(c, q) ==
    CASE c = "\\" -> <<"\\", "\\">>
      [] c = q -> <<"\\", q>>
      [] c = "LF" -> <<"\\", "n">>
      [] c = "CR" -> <<"\\", "r">>
      [] c = "TAB" -> <<"\\", "t">>
      [] OTHER -> <<c>>

ReprStr(s) ==
    LET hasS == \E i \in 1..Len(s) : s[i] = "'"
        hasD == \E i \in 1..Len(s) : s[i] = "\""
        q == IF hasS /\ ~hasD THEN "\"" ELSE "'"
    IN  <<q>> \o FlattenSeq([i \in 1..Len(s) |-> ReprChar(s[i], q)]) \o <<q>>

RECURSIVE Repr(_)
Repr(x) ==
    CASE x.t = "str" -> ReprStr(x.v)
      [] x.t = "int" -> IntStr(x.v)
      [] x.t = "None" -> <<"N", "o", "n", "e">>
      [] x.t = "list" ->
            <<"[">> \o Join(<<",", " ">>, [i \in 1..Len(x.v) |-> Repr(x.v[i])]) \o <<"]">>
      [] x.t = "dict" ->
            LET ks == KeySeq(DOMAIN x.v) IN
            <<"{">> \o Join(<<",", " ">>,
                        [i \in 1..Len(ks) |->
                            ReprStr(ks[i]) \o <<":", " ">> \o Repr(x.v[ks[i]])])
                \o <<"}">>

(* mutant: the value formatted with repr() *)
Format_repr(x) == Repr(x)

(* '{0}'.format(x): str(x) *)
Format(x) == IF x.t = "str" THEN x.v ELSE Repr(x)

(* r'{{"{0}": {1} }}'.format(key, inner) *)
WrapJson(key, inner) == <<"{", "\"">> \o key \o <<"\"", ":", " ">> \o inner \o <<" ", "}">>

RECURSIVE WrapKeys(_, _)
WrapKeys(ks, inner) ==
    IF ks = << >> THEN inner
    ELSE WrapKeys(SubSeq(ks, 1, Len(ks) - 1), WrapJson(ks[Len(ks)], inner))

(* the text json_data built from the key and the value *)
JsonData(key, x) ==
    Bind(SplitDot(key), LAMBDA xkeys :
        WrapKeys(SubSeq(xkeys, 1, Len(xkeys) - 1),
                 IF IsDict(x) THEN WrapJson(xkeys[Len(xkeys)], Dumps(x))
                 ELSE WrapJson(xkeys[Len(xkeys)], <<"\"">> \o Format(x) \o <<"\"">>)))

(* a text that does not load is retried with the value 'DROPPED'; when that    *)
(* does not load either (the key breaks the text) the recursion never ends     *)
put_value_into_dict(key, x) ==
    Bind(Loads(JsonData(key, x)), LAMBDA r :
        IF r.ok THEN r.val
        ELSE Bind(Loads(JsonData(key, PyStr(DROPPED))), LAMBDA r2 :
                IF r2.ok THEN r2.val ELSE RecursionError))

----------------------------------------------------------------------------
(* merge *)

(* mutant: on a conflict the value a already holds is kept *)
RECURSIVE merge_keep(_, _)
merge_keep(a, b) ==
    [k \in DOMAIN a \cup DOMAIN b |->
        IF k \notin DOMAIN b THEN a[k]
        ELSE IF k \notin DOMAIN a THEN b[k]
        ELSE IF IsDict(a[k]) /\ IsDict(b[k]) THEN PyDict(merge_keep(a[k].v, b[k].v))
        ELSE a[k]]

(* a merge that collects the two values of a conflict in a list *)
RECURSIVE merge_collect(_, _)
merge_collect(a, b) ==
    [k \in DOMAIN a \cup DOMAIN b |->
        IF k \notin DOMAIN b THEN a[k]
        ELSE IF k \notin DOMAIN a THEN b[k]
        ELSE IF IsDict(a[k]) /\ IsDict(b[k]) THEN PyDict(merge_collect(a[k].v, b[k].v))
        ELSE IF PyEq(a[k], b[k]) THEN a[k]
        ELSE PyList(<<a[k], b[k]>>)]

(* merges b into a; a and b are the functions of two dicts *)
RECURSIVE merge(_, _)
merge(a, b) ==
    [k \in DOMAIN a \cup DOMAIN b |->
        IF k \notin DOMAIN b THEN a[k]
        ELSE IF k \notin DOMAIN a THEN b[k]
        ELSE IF IsDict(a[k]) /\ IsDict(b[k]) THEN PyDict(merge(a[k].v, b[k].v))
        ELSE IF PyEq(a[k], b[k]) THEN a[k]
        ELSE b[k]]

----------------------------------------------------------------------------
(* Inputs of the path helpers *)

MaxStrLen == 2

ValChars == {"a", "n", "1", "-", "\"", "\\"}

RECURSIVE StringsUpTo(_, _)
StringsUpTo(chars, n) ==
    IF n = 0 THEN {<< >>}
    ELSE LET shorter == StringsUpTo(chars, n - 1) IN
         shorter \cup {Append(s, c) : s \in shorter, c \in chars}

kA == <<"a">>
kB == <<"b">>
kC == <<"c">>
kX == <<"x">>
kY == <<"y">>

PathInputs ==
    { <<"a">>,
      <<"a", ".", "b">>,
      <<"a", ".", "b", ".", "c">>,
      <<"a", ".", ".", "b">>,
      <<"a", ".", "0", ".", "b">>,
      <<"0">> }

MapInputs ==
    { PyDict(EmptyMap),
      PyDict(One(kX, PyInt(1))),
      PyDict(SetKey(One(kX, PyStr(<<"1">>)), kY, PyDict(One(kA, PyInt(0))))),
      PyDict(SetKey(One(kX, PyList(<<PyStr(<<"\"">>), None>>)), kY, PyStr(<<"\\", "n">>))) }

IntInputs == {PyInt(0 - 1), PyInt(0), PyInt(7), PyInt(123)}

ValueInputs ==
    {PyStr(s) : s \in StringsUpTo(ValChars, MaxStrLen)} \cup IntInputs \cup MapInputs

PathIdle ==
    /\ pathPc = "idle"
    /\ key_str = << >>
    /\ v_in = None
    /\ new_dict = None
    /\ dct = None
    /\ xkeys_list = << >>
    /\ got = None

AdapterIdle ==
    /\ adapterPc = "idle"
    /\ record = None
    /\ config = None
    /\ rawdata_dict = None
    /\ ignore = None
    /\ own_file_format = None
    /\ gen = None
    /\ outcomes = << >>

ParserIdle ==
    /\ AdapterIdle
    /\ parserPc = "idle"
    /\ logdata = None
    /\ meta = None
    /\ logconfig = None
    /\ logdata_dict = None
    /\ utcnow = None
    /\ timestamp = None
    /\ event_ingested = None
    /\ output = None

(* put_value_into_dict(key_str, v) followed by get_value_from_dict on the same key *)
InitRoundTrip ==
    /\ pathPc = "start"
    /\ key_str \in PathInputs
    /\ v_in \in ValueInputs
    /\ new_dict = None
    /\ dct = None
    /\ xkeys_list = << >>
    /\ got = None
    /\ ParserIdle

Put ==
    /\ pathPc = "start"
    /\ \E r \in {put_value_into_dict(key_str, v_in)} : new_dict' = r
    /\ pathPc' = "put"
    /\ UNCHANGED <<key_str, v_in, dct, xkeys_list, got, parserVars, adapterVars>>

GetBack ==
    /\ pathPc = "put"
    /\ got' = get_value_from_dict(new_dict, key_str)
    /\ pathPc' = "got"
    /\ UNCHANGED <<key_str, v_in, new_dict, dct, xkeys_list, parserVars, adapterVars>>

NextRoundTrip == Put \/ GetBack

SpecRoundTrip == InitRoundTrip /\ [][NextRoundTrip]_vars

(* the text built for v does not load, so 'DROPPED' is stored instead *)
TriggersFallback(key, x) == ~Loads(JsonData(key, x)).ok

HasIntSegment(key) ==
    LET ks == SplitDot(key) IN \E i \in 1..Len(ks) : IsIntLiteral(ks[i])

HasBackslash(s) == \E i \in 1..Len(s) : s[i] = "\\"

----------------------------------------------------------------------------
(* get_value_from_dict over candidate lists *)

MaxCands == 2

Absent == [t |-> "absent", v |-> 0]

DocAValues ==
    { Absent, PyInt(0), PyInt(7), EmptyStr, PyStr(<<"x", "y">>), None,
      PyDict(EmptyMap), PyList(<< >>),
      PyDict(One(kB, PyInt(3))),
      PyList(<<PyDict(One(kC, PyInt(1))), PyDict(One(kC, PyInt(0)))>>) }

DocBValues == {Absent, PyInt(5), PyStr(<<"n">>)}

DocOf(a, b) ==
    PyDict([k \in {x \in {kA, kB} : (IF x = kA THEN a ELSE b) # Absent} |->
                IF k = kA THEN a ELSE b])

DocInputs == {DocOf(a, b) : a \in DocAValues, b \in DocBValues}

CandPaths ==
    { <<"a">>, <<"b">>, <<"c">>,
      <<"a", ".", "b">>,
      <<"a", ".", "0">>,
      <<"a", ".", "0", ".", "c">>,
      <<"a", ".", "-", "1", ".", "c">> }

RECURSIVE CandLists(_)
CandLists(n) ==
    IF n = 0 THEN {<< >>}
    ELSE LET shorter == CandLists(n - 1) IN
         shorter \cup {IF l = << >> THEN q ELSE l \o <<" ">> \o q :
                          l \in shorter, q \in CandPaths}

InitGet ==
    /\ pathPc = "start"
    /\ dct \in DocInputs
    /\ xkeys_list \in CandLists(MaxCands)
    /\ key_str = << >>
    /\ v_in = None
    /\ new_dict = None
    /\ got = None
    /\ ParserIdle

GetValue ==
    /\ pathPc = "start"
    /\ got' = get_value_from_dict(dct, xkeys_list)
    /\ pathPc' = "got"
    /\ UNCHANGED <<key_str, v_in, new_dict, dct, xkeys_list, parserVars, adapterVars>>

NextGet == GetValue

SpecGet == InitGet /\ [][NextGet]_vars

(* the walk the claim describes: a numeric segment indexes a sequence (a list, *)
(* or the characters of a string), any other segment looks up a map key        *)
RefStep(x, seg) ==
    IF IsIntLiteral(seg)
    THEN LET n == IntOfLiteral(seg)
             i == IF n < 0 THEN Len(x.v) + n + 1 ELSE n + 1
         IN  IF x.t \in {"list", "str"} /\ i \in 1..Len(x.v)
             THEN (IF x.t = "list" THEN x.v[i] ELSE PyStr(<<x.v[i]>>))
             ELSE Absent
    ELSE IF x.t = "dict" /\ seg \in DOMAIN x.v THEN x.v[seg] ELSE Absent

RECURSIVE RefWalk(_, _)
RefWalk(x, segs) ==
    IF segs = << >> \/ x = Absent THEN x
    ELSE RefWalk(RefStep(x, Head(segs)), Tail(segs))

(* the first candidate, in list order, whose value is present and not in empties *)
RECURSIVE RefFirst(_, _, _)
RefFirst(d, cands, empties) ==
    IF cands = << >> THEN None
    ELSE LET x == RefWalk(d, SplitDot(Head(cands))) IN
         IF x # Absent /\ x \notin empties THEN x
         ELSE RefFirst(d, Tail(cands), empties)

(* C6 as stated: the result is the first candidate's value that is not the   *)
(* empty string, None or absent (only those count as empty); no value if     *)
(* there is none.                                                             *)
C6_FirstNonEmptyStrict ==
    pathPc = "got" => got = RefFirst(dct, SplitWs(xkeys_list), {EmptyStr, None})

(* C6 amended: every falsy value counts as empty: the empty string, None,    *)
(* absent, the integer 0, an empty map and an empty list.                     *)
C6_FirstTruthy ==
    pathPc = "got" =>
        got = RefFirst(dct, SplitWs(xkeys_list),
                       {EmptyStr, None, PyInt(0), PyDict(EmptyMap), PyList(<< >>)})

C6_Witness ==
    /\ pathPc = "got"
    /\ xkeys_list = <<"a", ".", "0", ".", "c", " ", "b">>
    /\ kA \in DOMAIN dct.v
    /\ dct.v[kA] = PyInt(7)
    /\ got = PyInt(5)

----------------------------------------------------------------------------
(* datetime: [year, month, day, hour, minute, second, microsecond, tz] with  *)
(* tz the UTC offset in minutes                                               *)

IsLeap(y) == (y % 4 = 0 /\ y % 100 # 0) \/ y % 400 = 0

DaysInMonth(y, m) ==
    IF m = 2 THEN (IF IsLeap(y) THEN 29 ELSE 28)
    ELSE IF m \in {4, 6, 9, 11} THEN 30 ELSE 31

DaysBeforeYear(y) ==
    LET p == y - 1 IN p * 365 + (p \div 4) - (p \div 100) + (p \div 400)

RECURSIVE DaysBeforeMonth(_, _)
DaysBeforeMonth(y, m) ==
    IF m = 1 THEN 0 ELSE DaysBeforeMonth(y, m - 1) + DaysInMonth(y, m - 1)

(* date.toordinal(): 0001-01-01 is day 1 *)
ToOrdinal(y, m, d) == DaysBeforeYear(y) + DaysBeforeMonth(y, m) + d

(* date.weekday(): Monday is 0 *)
Weekday(y, m, d) == (ToOrdinal(y, m, d) + 6) % 7

(* tm_yday - 1: days since January 1 *)
YearDay0(y, m, d) == DaysBeforeMonth(y, m) + d - 1

ValueError == [t |-> "ValueError", v |-> 0]
AttributeError == [t |-> "AttributeError", v |-> 0]
KeyError == [t |-> "KeyError", v |-> 0]
TypeError == [t |-> "TypeError", v |-> 0]

IsError(x) == x.t \in {"ValueError", "AttributeError", "KeyError", "TypeError",
                       "RecursionError", "Exception", "IndexError", "OSError"}

(* datetime(year=..., ..., tzinfo=TZ): ValueError for a day that does not exist *)
MkDatetime(y, mo, d, h, mi, s, us, tz) ==
    IF /\ mo \in 1..12
       /\ d >= 1 /\ d <= DaysInMonth(y, mo)
       /\ h \in 0..23 /\ mi \in 0..59 /\ s \in 0..59
       /\ us >= 0 /\ us <= 999999
    THEN [t |-> "datetime",
          v |-> [year |-> y, month |-> mo, day |-> d, hour |-> h, minute |-> mi,
                 second |-> s, microsecond |-> us, tz |-> tz]]
    ELSE ValueError

(* dt.replace(year=y) *)
ReplaceYear(dt, y) ==
    MkDatetime(y, dt.v.month, dt.v.day, dt.v.hour, dt.v.minute, dt.v.second,
               dt.v.microsecond, dt.v.tz)

(* the day the model counts seconds from (32-bit integers): 2000-01-01 *)
OrdinalBase == ToOrdinal(2000, 1, 1)

(* seconds since 2000-01-01T00:00:00Z of an aware datetime *)
UtcSeconds(dt) ==
    (ToOrdinal(dt.v.year, dt.v.month, dt.v.day) - OrdinalBase) * 86400
        + dt.v.hour * 3600 + dt.v.minute * 60 + dt.v.second - dt.v.tz * 60

(* a > b for aware datetimes *)
Later(a, b) ==
    \/ UtcSeconds(a) > UtcSeconds(b)
    \/ UtcSeconds(a) = UtcSeconds(b) /\ a.v.microsecond > b.v.microsecond

YearRange == 2019..2027

(* the datetime of the local second count loc in the zone tz *)
FromLocalSeconds(loc, us, tz) ==
    Bind((loc \div 86400) + OrdinalBase, LAMBDA ord :
    Bind(CHOOSE yy \in YearRange : DaysBeforeYear(yy) < ord /\ ord <= DaysBeforeYear(yy + 1),
         LAMBDA y :
    Bind(ord - DaysBeforeYear(y), LAMBDA yd :
    Bind(CHOOSE mm \in 1..12 :
             DaysBeforeMonth(y, mm) < yd /\ yd <= DaysBeforeMonth(y, mm) + DaysInMonth(y, mm),
         LAMBDA mo :
    Bind(loc % 86400, LAMBDA rem :
        [t |-> "datetime",
         v |-> [year |-> y, month |-> mo, day |-> yd - DaysBeforeMonth(y, mo),
                hour |-> rem \div 3600, minute |-> (rem % 3600) \div 60,
                second |-> rem % 60, microsecond |-> us, tz |-> tz]])))))

(* the aware datetime at utc seconds secs (+ us) shown in the zone tz *)
FromUtcSeconds(secs, us, tz) == Bind(secs + tz * 60, LAMBDA loc : FromLocalSeconds(loc, us, tz))

(* dt.astimezone(TZ) *)
AsTimezone(dt, tz) == FromUtcSeconds(UtcSeconds(dt), dt.v.microsecond, tz)

(* dt + timedelta(hours=h) *)
AddHours(dt, h) == FromUtcSeconds(UtcSeconds(dt) + h * 3600, dt.v.microsecond, dt.v.tz)

(* n as w decimal digits, zero padded *)
RECURSIVE Pad(_, _)
Pad(n, w) == IF w = 0 THEN << >> ELSE Pad(n \div 10, w - 1) \o <<Digits[(n % 10) + 1]>>

(* dt.isoformat() of an aware datetime *)
IsoFormat(dt) ==
    LET d == dt.v
        off == IF d.tz < 0 THEN 0 - d.tz ELSE d.tz
    IN  Pad(d.year, 4) \o <<"-">> \o Pad(d.month, 2) \o <<"-">> \o Pad(d.day, 2)
        \o <<"T">> \o Pad(d.hour, 2) \o <<":">> \o Pad(d.minute, 2) \o <<":">> \o Pad(d.second, 2)
        \o (IF d.microsecond = 0 THEN << >> ELSE <<".">> \o Pad(d.microsecond, 6))
        \o <<(IF d.tz < 0 THEN "-" ELSE "+")>> \o Pad(off \div 60, 2) \o <<":">> \o Pad(off % 60, 2)

----------------------------------------------------------------------------
(* RE_SYSLOG_FORMAT and MONTH_TO_INT *)

Upper == {"A", "B", "C", "D", "E", "F", "G", "H", "I", "J", "K", "L", "M",
          "N", "O", "P", "Q", "R", "S", "T", "U", "V", "W", "X", "Y", "Z"}
Lower == {"a", "b", "c", "d", "e", "f", "g", "h", "i", "j", "k", "l", "m",
          "n", "o", "p", "q", "r", "s", "t", "u", "v", "w", "x", "y", "z"}

MonthNames == <<<<"J", "a", "n">>, <<"F", "e", "b">>, <<"M", "a", "r">>, <<"A", "p", "r">>, <<"M", "a", "y">>, <<"J", "u", "n">>, <<"J", "u", "l">>, <<"A", "u", "g">>, <<"S", "e", "p">>, <<"O", "c", "t">>, <<"N", "o", "v">>, <<"D", "e", "c">>>>

(* MONTH_TO_INT[name], or KeyError *)
MonthToInt(name) ==
    IF \E i \in 1..12 : MonthNames[i] = name
    THEN PyInt(CHOOSE i \in 1..12 : MonthNames[i] = name)
    ELSE KeyError

(* the length of the run of characters of set cs that starts at position p *)
RECURSIVE RunLen(_, _, _)
RunLen(s, p, cs) == IF p <= Len(s) /\ s[p] \in cs THEN 1 + RunLen(s, p + 1, cs) ELSE 0

NoMatch == [t |-> "None", g |-> << >>]

(* the match from the time of day on: p2..p3-1 is the day, p4 the first hour digit *)
SyslogMatchTime(s, p2, p3, p4) ==
    Bind(IF p4 + 8 <= Len(s) /\ s[p4 + 8] = "." THEN RunLen(s, p4 + 9, DigitSet) ELSE 0,
         LAMBDA fr0 :
    Bind(IF fr0 > 6 THEN 6 ELSE fr0, LAMBDA fr :
        IF /\ Len(s) >= p4 + 7
           /\ \A i \in {0, 1, 3, 4, 6, 7} : s[p4 + i] \in DigitSet
           /\ s[p4 + 2] = ":" /\ s[p4 + 5] = ":"
        THEN [t |-> "match",
              g |-> <<PyStr(SubSeq(s, 1, 3)), PyStr(SubSeq(s, p2, p3 - 1)),
                      PyStr(SubSeq(s, p4, p4 + 1)), PyStr(SubSeq(s, p4 + 3, p4 + 4)),
                      PyStr(SubSeq(s, p4 + 6, p4 + 7)),
                      IF fr >= 1 THEN PyStr(SubSeq(s, p4 + 9, p4 + 8 + fr)) ELSE None>>]
        ELSE NoMatch))

(* RE_SYSLOG_FORMAT.match(s): the groups 1..5 and 7 (group 7 is None without *)
(* a fraction), or None                                                       *)
SyslogMatch(s) ==
    IF ~(Len(s) >= 3 /\ s[1] \in Upper /\ s[2] \in Lower /\ s[3] \in Lower) THEN NoMatch
    ELSE
    Bind(RunLen(s, 4, WsSet), LAMBDA w1 :
    Bind(RunLen(s, 4 + w1, DigitSet), LAMBDA nd0 :
    Bind(IF nd0 > 2 THEN 2 ELSE nd0, LAMBDA nd :
    Bind(RunLen(s, 4 + w1 + nd, WsSet), LAMBDA w2 :
        IF w1 >= 1 /\ nd >= 1 /\ w2 >= 1
        THEN SyslogMatchTime(s, 4 + w1, 4 + w1 + nd, 4 + w1 + nd + w2)
        ELSE NoMatch))))

(* s.ljust(6, '0') *)
RECURSIVE Ljust6(_)
Ljust6(s) == IF Len(s) >= 6 THEN s ELSE Ljust6(Append(s, "0"))

(* s.replace('Z', '+00:00') *)
ReplaceZ(s) ==
    FlattenSeq([i \in 1..Len(s) |->
        IF s[i] = "Z" THEN <<"+", "0", "0", ":", "0", "0">> ELSE <<s[i]>>])

(* lines 671-690: the candidate in now's year, in the year before if that    *)
(* day does not exist, moved to the year before if it is after now            *)
SyslogCandidate(mon, day, hh, mi, ss, microsec, now, tz) ==
    Bind(MkDatetime(now.v.year, mon, day, hh, mi, ss, microsec, tz), LAMBDA first :
    Bind(IF first = ValueError
         THEN MkDatetime(now.v.year - 1, mon, day, hh, mi, ss, microsec, tz)
         ELSE first,
         LAMBDA dt :
        IF dt = ValueError THEN ValueError
        ELSE IF Later(dt, now) THEN ReplaceYear(dt, now.v.year - 1)
        ELSE dt))

(* the syslog branch of get_timestamp: timestr with the reference now and the *)
(* zone tz (minutes)                                                           *)
SyslogTimestamp(timestr, now, tz) ==
    IF ~IsStr(timestr) THEN TypeError
    ELSE
    Bind(SyslogMatch(timestr.v), LAMBDA m :
        IF m = NoMatch THEN AttributeError
        ELSE
        Bind(MonthToInt(m.g[1].v), LAMBDA mon :
            IF mon = KeyError THEN KeyError
            ELSE SyslogCandidate(mon.v, DigitsVal(m.g[2].v, 0), DigitsVal(m.g[3].v, 0),
                                 DigitsVal(m.g[4].v, 0), DigitsVal(m.g[5].v, 0),
                                 IF m.g[6] = None THEN 0 ELSE DigitsVal(Ljust6(m.g[6].v), 0),
                                 now, tz)))

----------------------------------------------------------------------------
(* get_timestamp *)

sEpoch == <<"e", "p", "o", "c", "h">>
sSyslog == <<"s", "y", "s", "l", "o", "g">>
sIso8601 == <<"i", "s", "o", "8", "6", "0", "1">>

TD_OFFSET12 == 12

UnixEpochSeconds == (ToOrdinal(1970, 1, 1) - OrdinalBase) * 86400

(* float(x) for the integer literals and ints of the model, else the error raised *)
FloatOf(x) ==
    CASE IsInt(x) -> x
      [] IsStr(x) -> IF IsIntLiteral(x.v) THEN PyInt(IntOfLiteral(x.v)) ELSE ValueError
      [] OTHER -> TypeError

RECURSIVE StripZeros(_)
StripZeros(s) == IF Len(s) > 1 /\ Head(s) = "0" THEN StripZeros(Tail(s)) ELSE s

MilliThreshold == <<"1", "0", "0", "0", "0", "0", "0", "0", "0", "0", "0", "0", "0">>

(* the epoch branch: epoch = float(timestr); above 1000000000000 it is in     *)
(* milliseconds: datetime.fromtimestamp(epoch or epoch/1000, tz=TZ). The value *)
(* is handled as its decimal digits (it exceeds the model's integers)          *)
EpochTimestamp(timestr, tz) ==
    LET txt == IF IsInt(timestr) THEN IntStr(timestr.v) ELSE timestr.v IN
    IF ~(IsInt(timestr) \/ IsStr(timestr)) THEN TypeError
    ELSE IF ~AllDigits(txt) THEN ValueError
    ELSE LET ds == StripZeros(txt)
             n == Len(ds)
             milli == n > 13 \/ (n = 13 /\ ds # MilliThreshold)
         IN  IF milli
             THEN FromUtcSeconds(UnixEpochSeconds + DigitsVal(SubSeq(ds, 1, n - 3), 0),
                                 DigitsVal(SubSeq(ds, n - 2, n), 0) * 1000, tz)
             ELSE FromUtcSeconds(UnixEpochSeconds + DigitsVal(ds, 0), 0, tz)

DigitsAt(s, ps) == \A p \in ps : p <= Len(s) /\ s[p] \in DigitSet
Num(s, a, b) == DigitsVal(SubSeq(s, a, b), 0)

(* the first position of a sign in s, or 0 *)
SignPos(s) ==
    IF \E i \in 1..Len(s) : s[i] \in {"+", "-"}
    THEN CHOOSE i \in 1..Len(s) : s[i] \in {"+", "-"} /\ \A j \in 1..(i - 1) : s[j] \notin {"+", "-"}
    ELSE 0

(* the time part HH[:MM[:SS[.fff[fff]]]] as <<h, m, s, us>>, or << >> if malformed *)
IsoTime(s) ==
    LET n == Len(s)
        okH == DigitsAt(s, {1, 2})
        okM == n >= 5 /\ s[3] = ":" /\ DigitsAt(s, {4, 5})
        okS == n >= 8 /\ s[6] = ":" /\ DigitsAt(s, {7, 8})
        okF == n \in {12, 15} /\ s[9] = "." /\ DigitsAt(s, 10..n)
    IN  IF n = 2 /\ okH THEN <<Num(s, 1, 2), 0, 0, 0>>
        ELSE IF n = 5 /\ okH /\ okM THEN <<Num(s, 1, 2), Num(s, 4, 5), 0, 0>>
        ELSE IF n = 8 /\ okH /\ okM /\ okS THEN <<Num(s, 1, 2), Num(s, 4, 5), Num(s, 7, 8), 0>>
        ELSE IF okH /\ okM /\ okS /\ okF
             THEN <<Num(s, 1, 2), Num(s, 4, 5), Num(s, 7, 8),
                    IF n = 12 THEN Num(s, 10, 12) * 1000 ELSE Num(s, 10, 15)>>
        ELSE << >>

NoTz == 100000

(* datetime.fromisoformat(s): YYYY-MM-DD[*HH[:MM[:SS[.fff[fff]]]][+HH:MM]];  *)
(* a naive result carries tz = NoTz                                           *)
FromIsoFormat(s) ==
    IF ~(Len(s) >= 10 /\ DigitsAt(s, {1, 2, 3, 4, 6, 7, 9, 10}) /\ s[5] = "-" /\ s[8] = "-")
    THEN ValueError
    ELSE
    LET y == Num(s, 1, 4)
        mo == Num(s, 6, 7)
        d == Num(s, 9, 10)
    IN  IF Len(s) = 10 THEN MkDatetime(y, mo, d, 0, 0, 0, 0, NoTz)
        ELSE IF Len(s) = 11 THEN ValueError
        ELSE
        LET rest == SubSeq(s, 12, Len(s))
            sp == SignPos(rest)
            tpart == IF sp = 0 THEN rest ELSE SubSeq(rest, 1, sp - 1)
            opart == IF sp = 0 THEN << >> ELSE SubSeq(rest, sp + 1, Len(rest))
            tm == IsoTime(tpart)
            okOff == sp = 0 \/ (Len(opart) = 5 /\ DigitsAt(opart, {1, 2, 4, 5}) /\ opart[3] = ":"
                                /\ Num(opart, 1, 2) <= 23 /\ Num(opart, 4, 5) <= 59)
            off == IF sp = 0 THEN NoTz
                   ELSE (IF rest[sp] = "-" THEN 0 - 1 ELSE 1)
                        * (Num(opart, 1, 2) * 60 + Num(opart, 4, 5))
        IN  IF tm = << >> \/ ~okOff THEN ValueError
            ELSE MkDatetime(y, mo, d, tm[1], tm[2], tm[3], tm[4], off)

(* if not dt.tzinfo: dt = dt.replace(tzinfo=TZ) *)
WithDefaultTz(dt, tz) ==
    IF IsError(dt) THEN dt
    ELSE IF dt.v.tz = NoTz THEN [dt EXCEPT !.v.tz = tz] ELSE dt

(* datetime.strptime(s, fmt) for formats made of %Y %m %d %H %M %S and       *)
(* literal characters; acc is <<Y, m, d, H, M, S>>                            *)
RECURSIVE Strptime(_, _, _)
Strptime(s, fmt, acc) ==
    IF fmt = << >> THEN
        (IF s = << >> THEN MkDatetime(acc[1], acc[2], acc[3], acc[4], acc[5], acc[6], 0, NoTz)
         ELSE ValueError)
    ELSE IF Head(fmt) = "%" THEN
        IF Len(fmt) < 2 \/ fmt[2] \notin {"Y", "m", "d", "H", "M", "S"} THEN ValueError
        ELSE LET want == IF fmt[2] = "Y" THEN 4 ELSE 2
                 n0 == RunLen(s, 1, DigitSet)
                 n == IF n0 > want THEN want ELSE n0
                 idx == CASE fmt[2] = "Y" -> 1 [] fmt[2] = "m" -> 2 [] fmt[2] = "d" -> 3
                          [] fmt[2] = "H" -> 4 [] fmt[2] = "M" -> 5 [] OTHER -> 6
             IN  IF n = 0 \/ (fmt[2] = "Y" /\ n < 4) THEN ValueError
                 ELSE Strptime(SubSeq(s, n + 1, Len(s)), SubSeq(fmt, 3, Len(fmt)),
                               [acc EXCEPT ![idx] = Num(s, 1, n)])
    ELSE IF s # << >> /\ Head(s) = Head(fmt) THEN Strptime(Tail(s), Tail(fmt), acc)
    ELSE ValueError

(* lines 634-639: the deprecated combined `timestamp` setting is split into   *)
(* timestamp_key and timestamp_format, which are stored in the configuration   *)
LegacyTimestamp(cfg) ==
    IF cfg.timestamp # << >>
    THEN LET tl == SplitOn(cfg.timestamp, ",", << >>) IN
         [cfg EXCEPT !.timestamp_key = tl[1],
                     !.timestamp_format = IF Len(tl) = 2 THEN tl[2] ELSE @]
    ELSE cfg

(* lines 641-711, with the configuration cfg as lines 634-639 left it *)
TimestampOf(cfg, d, nowutc) ==
    IF cfg.timestamp_key = << >> THEN nowutc
    ELSE
    Bind(FloatOf(PyStr(cfg.timestamp_tz)), LAMBDA tzf :
        IF IsError(tzf) THEN tzf
        ELSE IF cfg.timestamp_key \notin DOMAIN d THEN KeyError
        ELSE
        Bind(IF IsStr(d[cfg.timestamp_key]) THEN PyStr(ReplaceZ(d[cfg.timestamp_key].v))
             ELSE d[cfg.timestamp_key],
             LAMBDA timestr :
            IF IsSubstr(sEpoch, cfg.timestamp_format) THEN EpochTimestamp(timestr, tzf.v * 60)
            ELSE IF IsSubstr(sSyslog, cfg.timestamp_format)
                 THEN Bind(AddHours(nowutc, TD_OFFSET12),
                           LAMBDA now : SyslogTimestamp(timestr, now, tzf.v * 60))
            ELSE IF IsSubstr(sIso8601, cfg.timestamp_format) THEN
                    (IF IsStr(timestr)
                     THEN Bind(FromIsoFormat(timestr.v), LAMBDA dt : WithDefaultTz(dt, tzf.v * 60))
                     ELSE TypeError)
            ELSE IF cfg.timestamp_format # << >> THEN
                    (IF IsStr(timestr)
                     THEN Bind(Strptime(timestr.v, cfg.timestamp_format, <<1900, 1, 1, 0, 0, 0>>),
                               LAMBDA dt : WithDefaultTz(dt, tzf.v * 60))
                     ELSE TypeError)
            ELSE ValueError))

(* get_timestamp: [cfg: the configuration afterwards, dt: the datetime or the *)
(* exception raised]; d is __logdata_dict, nowutc is datetime.now(timezone.utc) *)
get_timestamp(cfg0, d, nowutc) ==
    Bind(LegacyTimestamp(cfg0), LAMBDA cfg : [cfg |-> cfg, dt |-> TimestampOf(cfg, d, nowutc)])

----------------------------------------------------------------------------
(* indexname *)

sAuto == <<"a", "u", "t", "o">>
sDaily == <<"d", "a", "i", "l", "y">>
sWeekly == <<"w", "e", "e", "k", "l", "y">>
sMonthly == <<"m", "o", "n", "t", "h", "l", "y">>
sEventIngested == <<"e", "v", "e", "n", "t", "_", "i", "n", "g", "e", "s", "t", "e", "d">>

(* mutant: strftime('%U'), Sunday the first day of the week *)
WeekOfYearSunday(y, m, d) == (YearDay0(y, m, d) + 7 - ((Weekday(y, m, d) + 1) % 7)) \div 7

(* strftime('%W'): week of the year, Monday the first day of the week; the   *)
(* days before the first Monday are in week 0                                 *)
WeekOfYearMonday(y, m, d) == (YearDay0(y, m, d) + 7 - Weekday(y, m, d)) \div 7

(* mutant: no policy returns the base name; every name gets the yearly suffix *)
indexname_suffixed(cfg, ts, ing) == PyStr(cfg.index_name \o <<"-">> \o Pad(ts.v.year, 4))

(* lines 736-743: the name with the suffix of the rotation policy rot *)
IndexSuffixed(name, rot, dt) ==
    IF IsSubstr(sDaily, rot)
    THEN PyStr(name \o <<"-">> \o Pad(dt.v.year, 4) \o <<"-">> \o Pad(dt.v.month, 2)
               \o <<"-">> \o Pad(dt.v.day, 2))
    ELSE IF IsSubstr(sWeekly, rot)
    THEN PyStr(name \o <<"-">> \o Pad(dt.v.year, 4) \o <<"-", "w">>
               \o Pad(WeekOfYearMonday(dt.v.year, dt.v.month, dt.v.day), 2))
    ELSE IF IsSubstr(sMonthly, rot)
    THEN PyStr(name \o <<"-">> \o Pad(dt.v.year, 4) \o <<"-">> \o Pad(dt.v.month, 2))
    ELSE PyStr(name \o <<"-">> \o Pad(dt.v.year, 4))

(* LogParser.indexname; ts is self.timestamp, ing is self.event_ingested; the *)
(* result is the index name or the exception raised                           *)
indexname(cfg, ts, ing) ==
    IF IsSubstr(sAuto, cfg.index_rotation) THEN PyStr(cfg.index_name)
    ELSE
    Bind(IF IsSubstr(sEventIngested, cfg.index_time) THEN ing ELSE ts, LAMBDA dt0 :
        IF cfg.index_tz = << >> THEN IndexSuffixed(cfg.index_name, cfg.index_rotation, dt0)
        ELSE Bind(FloatOf(PyStr(cfg.index_tz)), LAMBDA tzf :
                IF IsError(tzf) THEN tzf
                ELSE Bind(AsTimezone(dt0, tzf.v * 60),
                          LAMBDA dt : IndexSuffixed(cfg.index_name, cfg.index_rotation, dt))))

----------------------------------------------------------------------------
(* The log type configuration (one section of aws.ini / user.ini): the        *)
(* settings read by literal name are fields, the settings read by a computed  *)
(* name (logconfig[ecs_key], logconfig[static_ecs_key]) are in keys           *)

BaseConfig ==
    [ doc_id |-> << >>, doc_id_suffix |-> << >>, json_to_text |-> << >>,
      ecs_version |-> <<"1", ".", "5", ".", "0">>, cloud_provider |-> <<"a", "w", "s">>,
      ecs |-> << >>, static_ecs |-> << >>, script_ecs |-> << >>, geoip |-> << >>,
      timestamp |-> << >>, timestamp_key |-> << >>, timestamp_format |-> << >>,
      timestamp_tz |-> <<"0">>,
      index_name |-> <<"l", "o", "g", "-", "x">>, index_rotation |-> sMonthly,
      index_time |-> sEventIngested, index_tz |-> << >>,
      keys |-> EmptyMap ]

UtcDatetime(y, mo, d, h, mi, s) == MkDatetime(y, mo, d, h, mi, s, 0, 0)

----------------------------------------------------------------------------
(* Names the code uses *)

N ==
    [ kExtractedFields |-> <<"e", "x", "t", "r", "a", "c", "t", "e", "d", "F", "i", "e", "l", "d", "s">>,
      kMessage |-> <<"m", "e", "s", "s", "a", "g", "e">>,
      sKinesis |-> <<"k", "i", "n", "e", "s", "i", "s">>,
      sS3 |-> <<"s", "3">>,
      sCsv |-> <<"c", "s", "v">>,
      sJson |-> <<"j", "s", "o", "n">>,
      sText |-> <<"t", "e", "x", "t">>,
      kAtMessage |-> <<"@", "m", "e", "s", "s", "a", "g", "e">>,
      kEvent |-> <<"e", "v", "e", "n", "t">>,
      kModule |-> <<"m", "o", "d", "u", "l", "e">>,
      kIngested |-> <<"i", "n", "g", "e", "s", "t", "e", "d">>,
      kAtTimestamp |-> <<"@", "t", "i", "m", "e", "s", "t", "a", "m", "p">>,
      kAtLogType |-> <<"@", "l", "o", "g", "_", "t", "y", "p", "e">>,
      kAtId |-> <<"@", "i", "d">>,
      kAtLogGroup |-> <<"@", "l", "o", "g", "_", "g", "r", "o", "u", "p">>,
      kAtLogStream |-> <<"@", "l", "o", "g", "_", "s", "t", "r", "e", "a", "m">>,
      kAtLogS3bucket |-> <<"@", "l", "o", "g", "_", "s", "3", "b", "u", "c", "k", "e", "t">>,
      kAtLogS3key |-> <<"@", "l", "o", "g", "_", "s", "3", "k", "e", "y">>,
      kEcs |-> <<"e", "c", "s">>,
      kVersion |-> <<"v", "e", "r", "s", "i", "o", "n">>,
      kCloud |-> <<"c", "l", "o", "u", "d">>,
      kProvider |-> <<"p", "r", "o", "v", "i", "d", "e", "r">>,
      kAccount |-> <<"a", "c", "c", "o", "u", "n", "t">>,
      kId |-> <<"i", "d">>,
      kRegion |-> <<"r", "e", "g", "i", "o", "n">>,
      sUnknown |-> <<"u", "n", "k", "n", "o", "w", "n">>,
      sDotIp |-> <<".", "i", "p">>,
      kIp |-> <<"i", "p">>,
      kGeo |-> <<"g", "e", "o">>,
      kAs |-> <<"a", "s">> ]

----------------------------------------------------------------------------
(* LogParser: construction *)

Raised(kind) == [t |-> kind, v |-> 0]

(* key in obj: a key of a dict, a substring of a str *)
Contains(obj, key) ==
    CASE obj.t = "dict" -> key \in DOMAIN obj.v
      [] obj.t = "str" -> IsSubstr(key, obj.v)
      [] obj.t = "list" -> \E i \in 1..Len(obj.v) : obj.v[i] = PyStr(key)
      [] OTHER -> FALSE

(* org_key.translate({ord('-'): ord('_')}) *)
ConvKeyName(k) == [i \in 1..Len(k) |-> IF k[i] = "-" THEN "_" ELSE k[i]]

(* conv_key: '-' in the keys of nested dicts becomes '_'; a renamed key      *)
(* replaces a key that already has the new name                               *)
RECURSIVE conv_key(_)
conv_key(obj) ==
    CASE obj.t = "dict" ->
            PyDict([nk \in {ConvKeyName(k) : k \in DOMAIN obj.v} |->
                IF \E k \in DOMAIN obj.v : k # nk /\ ConvKeyName(k) = nk
                THEN conv_key(obj.v[CHOOSE k \in DOMAIN obj.v : k # nk /\ ConvKeyName(k) = nk])
                ELSE conv_key(obj.v[nk])])
      [] obj.t = "list" -> PyList([i \in 1..Len(obj.v) |-> conv_key(obj.v[i])])
      [] OTHER -> obj

(* dict(zip(keys, vals)): pairs up to the shorter list, a later pair wins *)
RECURSIVE ZipDict(_, _, _)
ZipDict(keys, vals, acc) ==
    IF keys = << >> \/ vals = << >> THEN acc
    ELSE ZipDict(Tail(keys), Tail(vals), SetKey(acc, Head(keys), PyStr(Head(vals))))

(* log_pattern_prog.match(text).groupdict() for a pattern of the form        *)
(* (?P<n1>\S+)\s+(?P<n2>\S+)...$ with the group names prog.v; None without  *)
(* match                                                                      *)
Pattern(names) == [t |-> "Pattern", v |-> names]

PatternMatch(prog, text) ==
    IF Len(SplitWs(text)) = Len(prog.v) THEN PyDict(ZipDict(prog.v, SplitWs(text), EmptyMap))
    ELSE None

(* logdata_to_dict: the dict, or the exception raised. m is the parser's     *)
(* construction arguments, raw is logdata                                     *)
logdata_to_dict(m, raw) ==
    IF IsSubstr(N.sKinesis, m.msgformat) /\ Contains(raw, N.kExtractedFields)
    THEN (IF IsDict(raw) THEN raw.v[N.kExtractedFields] ELSE TypeError)
    ELSE IF IsSubstr(m.logformat, N.sCsv)
    THEN (IF IsStr(raw) /\ m.header # None
          THEN conv_key(PyDict(ZipDict(SplitWs(m.header.v), SplitWs(raw.v), EmptyMap)))
          ELSE AttributeError)
    ELSE IF IsSubstr(m.logformat, N.sJson) THEN raw
    ELSE IF IsSubstr(m.logformat, N.sText)
    THEN (IF m.log_pattern_prog = None THEN AttributeError
          ELSE IF ~IsStr(raw) THEN TypeError
          ELSE Bind(PatternMatch(m.log_pattern_prog, raw.v), LAMBDA g :
                    IF g = None THEN Raised("Exception") ELSE g))
    ELSE PyDict(EmptyMap)

(* check_ignored_log(ignore_list): rules is ignore_list[logtype], or None    *)
(* when the log type has no ignore rules                                      *)
(* (True, False, or the TypeError of `in` on a value that is no container)    *)
RECURSIVE IgnoreLoop(_, _, _)
IgnoreLoop(d, rules, keys) ==
    IF keys = << >> THEN PyInt(0)
    ELSE IF Head(keys) \in DOMAIN d /\ Truthy(d[Head(keys)])
    THEN (IF d[Head(keys)].t \notin {"str", "dict", "list"} THEN TypeError
          ELSE IF Contains(d[Head(keys)], rules[Head(keys)].v) THEN PyInt(1)
          ELSE IgnoreLoop(d, rules, Tail(keys)))
    ELSE IgnoreLoop(d, rules, Tail(keys))

check_ignored_log(d, rules) ==
    IF rules = None THEN PyInt(0) ELSE IgnoreLoop(d, rules.v, KeySeq(DOMAIN rules.v))

----------------------------------------------------------------------------
(* LogParser.add_basic_field *)

(* hashlib.md5(message).hexdigest(), kept symbolic: a non-empty text that is *)
(* a function of the message and is none of '', '-', 'null'                   *)
Md5Hex(msg) == <<"m", "d", "5", "(">> \o msg \o <<")">>

(* basic_dict['@message'] (lines 516-521), or the exception raised *)
BasicMessage(m, raw) ==
    IF IsSubstr(N.sKinesis, m.msgformat) /\ Contains(raw, N.kExtractedFields)
    THEN (IF IsDict(raw) /\ N.kMessage \in DOMAIN raw.v THEN raw.v[N.kMessage]
          ELSE IF IsDict(raw) THEN KeyError ELSE TypeError)
    ELSE IF IsSubstr(m.logformat, N.sJson) THEN PyStr(Dumps(raw))
    ELSE PyStr(Format(raw))

(* str(x).encode('utf-8') of the message for the digest *)
MessageText(msg) == Format(msg)

(* lines 522-538 once the message and the timestamp are known: basic_dict *)
BasicDict(m, cfg, d, msg, ts, ing) ==
    LET idv == IF cfg.doc_id # << >> THEN d[cfg.doc_id] ELSE PyStr(Md5Hex(MessageText(msg)))
        core == [k \in {N.kAtMessage, N.kEvent, N.kAtTimestamp, N.kAtLogType, N.kAtId} |->
                    CASE k = N.kAtMessage -> msg
                      [] k = N.kEvent -> PyDict(SetKey(One(N.kModule, PyStr(m.logtype)),
                                                     N.kIngested, PyStr(IsoFormat(ing))))
                      [] k = N.kAtTimestamp -> PyStr(IsoFormat(ts))
                      [] k = N.kAtLogType -> PyStr(m.logtype)
                      [] OTHER -> idv]
        grp == IF Truthy(m.loggroup)
               THEN SetKey(One(N.kAtLogGroup, m.loggroup), N.kAtLogStream, m.logstream)
               ELSE EmptyMap
        s3 == IF Truthy(m.s3bucket)
              THEN SetKey(One(N.kAtLogS3bucket, m.s3bucket), N.kAtLogS3key, m.s3key)
              ELSE EmptyMap
    IN  [k \in DOMAIN core \cup DOMAIN grp \cup DOMAIN s3 |->
            IF k \in DOMAIN s3 THEN s3[k] ELSE IF k \in DOMAIN grp THEN grp[k] ELSE core[k]]

(* dict.update: the keys of b replace those of a *)
Update(a, b) == [k \in DOMAIN a \cup DOMAIN b |-> IF k \in DOMAIN b THEN b[k] ELSE a[k]]

(* add_basic_field: [cfg, ts, ing, d] afterwards; d is the dict, or the      *)
(* exception raised                                                           *)
add_basic_field(m, cfg0, raw, d, nowutc) ==
    Bind(BasicMessage(m, raw), LAMBDA msg :
    Bind(IF IsError(msg) THEN [cfg |-> cfg0, dt |-> msg] ELSE get_timestamp(cfg0, d, nowutc),
         LAMBDA r :
        IF IsError(r.dt) THEN [cfg |-> r.cfg, ts |-> None, ing |-> None, d |-> r.dt]
        ELSE IF r.cfg.doc_id # << >> /\ r.cfg.doc_id \notin DOMAIN d
             THEN [cfg |-> r.cfg, ts |-> r.dt, ing |-> nowutc, d |-> KeyError]
        ELSE [cfg |-> r.cfg, ts |-> r.dt, ing |-> nowutc,
              d |-> PyDict(Update(d, BasicDict(m, r.cfg, d, msg, r.dt, nowutc)))]))

----------------------------------------------------------------------------
(* ipaddress.ip_address(v) does not raise ValueError *)

(* one decimal octet: 1 to 3 digits, at most 255, no leading zero *)
IsOctet(s) ==
    /\ Len(s) \in 1..3
    /\ AllDigits(s)
    /\ (Len(s) > 1 => s[1] # "0")
    /\ DigitsVal(s, 0) <= 255

IsIPv4(s) ==
    Bind(SplitDot(s), LAMBDA parts :
        Len(parts) = 4 /\ \A i \in 1..4 : IsOctet(parts[i]))

IsHextet(s) == Len(s) \in 1..4 /\ \A i \in 1..Len(s) : s[i] \in HexSet

(* colon-separated groups of 1 to 4 hexadecimal digits: eight of them, or    *)
(* fewer around a single '::' (no embedded IPv4 tail, no zone)                *)
IsIPv6(s) ==
    Bind(SplitOn(s, ":", << >>), LAMBDA parts :
        LET n == Len(parts)
            empties == {i \in 1..n : parts[i] = << >>}
            inner == {i \in empties : i > 1 /\ i < n}
            lead == 1 \in empties
            trail == n \in empties
            groups == n - Cardinality(empties)
        IN  /\ n >= 3
            /\ \A i \in (1..n) \ empties : IsHextet(parts[i])
            /\ Cardinality(inner) <= 1
            /\ (lead => 2 \in empties)
            /\ (trail => (n - 1) \in empties)
            /\ IF empties = {} THEN groups = 8
               ELSE /\ groups <= 7
                    /\ (inner = {} => (lead /\ trail /\ n = 3))
                    /\ (lead /\ n > 3 => inner = {2})
                    /\ (trail /\ n > 3 => inner = {n - 1}))

(* an int addresses IPv4 below 2**32 and IPv6 below 2**128 *)
IsIpAddress(x) ==
    CASE x.t = "str" -> IsIPv4(x.v) \/ IsIPv6(x.v)
      [] x.t = "int" -> x.v >= 0
      [] OTHER -> FALSE

----------------------------------------------------------------------------
(* LogParser.clean_multi_type_field *)

(* logconfig[name] for a name computed at run time *)
ConfigHas(cfg, name) == name \in DOMAIN cfg.keys

(* the loop of lines 544-554: clean_multi_type_dict, or the exception raised *)
RECURSIVE MultiTypeLoop(_, _, _)
MultiTypeLoop(d, keys, acc) ==
    IF keys = << >> THEN acc
    ELSE Bind(get_value_from_dict(PyDict(d), Head(keys)), LAMBDA v :
        IF ~Truthy(v) THEN MultiTypeLoop(d, Tail(keys), acc)
        ELSE Bind(IF IsInt(v) THEN put_value_into_dict(Head(keys), v)
                  ELSE IF Contains(v, <<"{">>) THEN put_value_into_dict(Head(keys), PyStr(Repr(v)))
                  ELSE put_value_into_dict(Head(keys), PyStr(Format(v))),
                  LAMBDA nd :
                    IF IsError(nd) THEN nd
                    ELSE MultiTypeLoop(d, Tail(keys), PyDict(merge(acc.v, nd.v)))))

(* the dict afterwards, or the exception raised *)
clean_multi_type_field(cfg, d) ==
    Bind(MultiTypeLoop(d, SplitWs(cfg.json_to_text), PyDict(EmptyMap)), LAMBDA c :
        IF IsError(c) THEN c ELSE PyDict(merge(d, c.v)))

----------------------------------------------------------------------------
(* LogParser.transform_to_ecs *)

(* lines 558-560 *)
EcsInit(cfg) ==
    Bind(One(N.kEcs, PyDict(One(N.kVersion, PyStr(cfg.ecs_version)))), LAMBDA e :
        IF cfg.cloud_provider # << >>
        THEN PyDict(SetKey(e, N.kCloud, PyDict(One(N.kProvider, PyStr(cfg.cloud_provider)))))
        ELSE PyDict(e))

(* lines 561-578: the mappings, in the order of the ecs setting *)
RECURSIVE EcsMapLoop(_, _, _, _)
EcsMapLoop(cfg, d, keys, ecs) ==
    IF keys = << >> THEN ecs
    ELSE IF ~ConfigHas(cfg, Head(keys)) THEN KeyError
    ELSE Bind(get_value_from_dict(PyDict(d), cfg.keys[Head(keys)]), LAMBDA v :
        IF ~Truthy(v) THEN EcsMapLoop(cfg, d, Tail(keys), ecs)
        ELSE Bind(put_value_into_dict(Head(keys), v), LAMBDA new_ecs_dict :
            IF IsError(new_ecs_dict) THEN new_ecs_dict
            ELSE IF IsSubstr(N.sDotIp, Head(keys)) /\ ~IsIpAddress(v)
            THEN EcsMapLoop(cfg, d, Tail(keys), ecs)
            ELSE EcsMapLoop(cfg, d, Tail(keys), PyDict(merge(ecs.v, new_ecs_dict.v)))))

(* `key in x` raises TypeError for an int or None *)
IsContainer(x) == x.t \in {"dict", "str", "list"}

(* lines 580-584: ecs_dict['cloud'] afterwards, or the exception raised *)
CloudAccount(c, accountid) ==
    IF ~IsContainer(c) THEN TypeError
    ELSE IF Contains(c, N.kAccount) /\ ~IsDict(c) THEN TypeError
    ELSE IF Contains(c, N.kAccount) /\ ~IsContainer(c.v[N.kAccount]) THEN TypeError
    ELSE IF Contains(c, N.kAccount) /\ Contains(c.v[N.kAccount], N.kId) THEN c
    ELSE IF Truthy(accountid)
    THEN (IF IsDict(c) THEN PyDict(SetKey(c.v, N.kAccount, PyDict(One(N.kId, accountid))))
          ELSE TypeError)
    ELSE c

(* lines 585-590 *)
CloudRegion(c, region) ==
    IF IsError(c) THEN c
    ELSE IF Contains(c, N.kRegion) THEN c
    ELSE IF ~IsDict(c) THEN TypeError
    ELSE IF Truthy(region) THEN PyDict(SetKey(c.v, N.kRegion, region))
    ELSE PyDict(SetKey(c.v, N.kRegion, PyStr(N.sUnknown)))

(* lines 579-590 *)
CloudDefaults(m, ecs) ==
    IF IsError(ecs) THEN ecs
    ELSE IF N.kCloud \notin DOMAIN ecs.v THEN ecs
    ELSE Bind(CloudRegion(CloudAccount(ecs.v[N.kCloud], m.accountid), m.region), LAMBDA c :
            IF IsError(c) THEN c ELSE PyDict(SetKey(ecs.v, N.kCloud, c)))

(* lines 591-596: the static fields, in the order of the static_ecs setting *)
RECURSIVE StaticLoop(_, _, _)
StaticLoop(cfg, keys, ecs) ==
    IF IsError(ecs) THEN ecs
    ELSE IF keys = << >> THEN ecs
    ELSE IF ~ConfigHas(cfg, Head(keys)) THEN KeyError
    ELSE Bind(put_value_into_dict(Head(keys), PyStr(cfg.keys[Head(keys)])), LAMBDA new_ecs_dict :
        IF IsError(new_ecs_dict) THEN new_ecs_dict
        ELSE StaticLoop(cfg, Tail(keys), PyDict(merge(ecs.v, new_ecs_dict.v))))

(* the dict afterwards, or the exception raised *)
transform_to_ecs(m, cfg, d) ==
    Bind(StaticLoop(cfg, SplitWs(cfg.static_ecs),
                    CloudDefaults(m, EcsMapLoop(cfg, d, SplitWs(cfg.ecs), EcsInit(cfg)))),
         LAMBDA ecs_dict :
            IF IsError(ecs_dict) THEN ecs_dict ELSE PyDict(merge(d, ecs_dict.v)))

----------------------------------------------------------------------------
(* LogParser.transform_by_script *)

sfKeep == [t |-> "module", v |-> "sf_keep"]
sfFail == [t |-> "module", v |-> "sf_fail"]

(* sf_module.transform(d) of the deployment's script: a pure function of the *)
(* document that returns the replacement document, or raises                  *)
ScriptTransform(sf_module, d) ==
    IF sf_module = sfKeep THEN PyDict(d) ELSE Raised("Exception")

(* the dict afterwards, or the exception raised; sf_module is None when the  *)
(* caller passed no script module                                             *)
transform_by_script(m, cfg, d) ==
    IF cfg.script_ecs = << >> THEN PyDict(d)
    ELSE IF m.sf_module = None THEN AttributeError
    ELSE ScriptTransform(m.sf_module, d)

----------------------------------------------------------------------------
(* LogParser.enrich *)

GeoIpBoth == <<"8", ".", "8", ".", "8", ".", "8">>
GeoIpAsnOnly == <<"1", ".", "1", ".", "1", ".", "1">>

(* reader_city.city(ip) of the GeoLite2 database, as get_geo_city returns it *)
(* (None for an address the database does not hold, or any failure)           *)
get_geo_city(ip) ==
    IF ip = PyStr(GeoIpBoth)
    THEN PyDict([k \in {<<"c", "i", "t", "y", "_", "n", "a", "m", "e">>, <<"c", "o", "u", "n", "t", "r", "y", "_", "i", "s", "o", "_", "c", "o", "d", "e">>, <<"c", "o", "u", "n", "t", "r", "y", "_", "n", "a", "m", "e">>, <<"l", "o", "c", "a", "t", "i", "o", "n">>} |->
            CASE k = <<"c", "i", "t", "y", "_", "n", "a", "m", "e">> -> None
              [] k = <<"c", "o", "u", "n", "t", "r", "y", "_", "i", "s", "o", "_", "c", "o", "d", "e">> -> PyStr(<<"U", "S">>)
              [] k = <<"c", "o", "u", "n", "t", "r", "y", "_", "n", "a", "m", "e">> -> PyStr(<<"U", "n", "i", "t", "e", "d", " ", "S", "t", "a", "t", "e", "s">>)
              [] OTHER -> PyDict(SetKey(One(<<"l", "o", "n">>, PyInt(0 - 97)), <<"l", "a", "t">>, PyInt(37)))])
    ELSE None

(* reader_geo.asn(ip), as get_geo_asn returns it *)
get_geo_asn(ip) ==
    IF ip \in {PyStr(GeoIpBoth), PyStr(GeoIpAsnOnly)}
    THEN PyDict(SetKey(One(<<"n", "u", "m", "b", "e", "r">>, PyInt(15169)),
                       <<"o", "r", "g", "a", "n", "i", "z", "a", "t", "i", "o", "n">>, PyDict(One(<<"n", "a", "m", "e">>, PyStr(<<"G", "O", "O", "G", "L", "E">>)))))
    ELSE None

(* lines 609-621 for one field: enrich_dict afterwards *)
EnrichOne(geoip_ecs, ipaddr, acc) ==
    Bind(get_geo_city(ipaddr), LAMBDA geoip :
    Bind(get_geo_asn(ipaddr), LAMBDA asn :
        IF geoip # None /\ asn # None
        THEN SetKey(acc, geoip_ecs, PyDict(SetKey(One(N.kGeo, geoip), N.kAs, asn)))
        ELSE IF geoip # None THEN SetKey(acc, geoip_ecs, PyDict(One(N.kGeo, geoip)))
        ELSE IF asn # None THEN SetKey(acc, geoip_ecs, PyDict(One(N.kAs, asn)))
        ELSE acc))

(* the loop of lines 609-621: enrich_dict, or the TypeError of subscripting  *)
(* a value that is no dict with 'ip'                                          *)
RECURSIVE EnrichLoop(_, _, _)
EnrichLoop(d, fields, acc) ==
    IF fields = << >> THEN PyDict(acc)
    ELSE IF Head(fields) \notin DOMAIN d THEN EnrichLoop(d, Tail(fields), acc)
    ELSE IF ~IsDict(d[Head(fields)]) THEN TypeError
    ELSE IF N.kIp \notin DOMAIN d[Head(fields)].v THEN EnrichLoop(d, Tail(fields), acc)
    ELSE EnrichLoop(d, Tail(fields), EnrichOne(Head(fields), d[Head(fields)].v[N.kIp], acc))

(* the dict afterwards, or the exception raised; reader_city is the module's *)
(* database handle (FALSE: no database was found at start)                    *)
enrich(reader_city, cfg, d) ==
    IF ~reader_city THEN PyDict(d)
    ELSE Bind(EnrichLoop(d, SplitWs(cfg.geoip), EmptyMap), LAMBDA e :
            IF IsError(e) THEN e ELSE PyDict(merge(d, e.v)))

----------------------------------------------------------------------------
(* LogParser.index_id, del_none and json *)

(* d['@id'] with the suffix appended when one is configured; KeyError without '@id' *)
index_id(cfg, d) ==
    IF N.kAtId \notin DOMAIN d THEN KeyError
    ELSE IF cfg.doc_id_suffix # << >>
    THEN PyStr(Format(d[N.kAtId]) \o <<"_">>
               \o Format(get_value_from_dict(PyDict(d), cfg.doc_id_suffix)))
    ELSE d[N.kAtId]

Sentinels == { << >>, <<"-">>, <<"n", "u", "l", "l">> }

(* one pass: a key whose value is an empty dict or one of '', '-', 'null' is *)
(* deleted, any other dict is cleaned in place (and kept)                     *)
RECURSIVE del_none(_)
del_none(d) ==
    [key \in {k \in DOMAIN d : /\ ~(IsDict(d[k]) /\ DOMAIN d[k].v = {})
                               /\ ~(IsStr(d[k]) /\ d[k].v \in Sentinels)} |->
        IF IsDict(d[key]) THEN PyDict(del_none(d[key].v)) ELSE d[key]]

(* self.__logdata_dict after json ran *)
CleanedDict(d) == del_none(del_none(d))

(* the text json returns *)
json(d) == Dumps(PyDict(CleanedDict(d)))

----------------------------------------------------------------------------
(* get_timestamp with timestamp_format = syslog *)

kTs == <<"t", "s">>

SyslogMonths == {1, 2, 3, 12}
SyslogDays == {1, 28, 29, 31}
SyslogTimes == { <<"0", "0", ":", "0", "0", ":", "0", "0">>,
                 <<"1", "2", ":", "0", "0", ":", "0", "0", ".", "5">>,
                 <<"2", "3", ":", "5", "9", ":", "5", "9">> }

(* "Mmm dd hh:mm:ss" with a one-digit day padded by a blank, as syslog writes it *)
SyslogText(mo, d, tm) ==
    MonthNames[mo] \o <<" ">> \o (IF d < 10 THEN <<" ">> ELSE << >>) \o IntStr(d) \o <<" ">> \o tm

SyslogTzs == {<<"-", "8">>, <<"0">>, <<"9">>}

SyslogNows ==
    { UtcDatetime(2023, 1, 1, 12, 0, 0),
      UtcDatetime(2023, 12, 31, 11, 59, 59),
      UtcDatetime(2024, 1, 1, 12, 0, 0),
      UtcDatetime(2024, 2, 29, 0, 0, 0),
      UtcDatetime(2024, 12, 31, 12, 0, 0),
      UtcDatetime(2025, 6, 15, 0, 0, 0) }

InitTime ==
    /\ parserPc = "basic_field"
    /\ \E tz \in SyslogTzs :
        logconfig = [BaseConfig EXCEPT !.timestamp_key = kTs, !.timestamp_format = sSyslog,
                                       !.timestamp_tz = tz]
    /\ \E mo \in SyslogMonths, d \in SyslogDays, tm \in SyslogTimes :
        logdata_dict = One(kTs, PyStr(SyslogText(mo, d, tm)))
    /\ utcnow \in SyslogNows
    /\ timestamp = None
    /\ event_ingested = None
    /\ output = None
    /\ logdata = None
    /\ meta = None
    /\ PathIdle
    /\ AdapterIdle

(* self.__timestamp = self.get_timestamp() (line 523) *)
GetTimestamp ==
    /\ parserPc = "basic_field"
    /\ \E r \in {get_timestamp(logconfig, logdata_dict, utcnow)} :
        /\ logconfig' = r.cfg
        /\ timestamp' = r.dt
        /\ parserPc' = IF IsError(r.dt) THEN "raised" ELSE "timestamp"
    /\ UNCHANGED <<logdata, meta, logdata_dict, utcnow, event_ingested, output, pathVars,
                   adapterVars>>

NextTime == GetTimestamp

SpecTime == InitTime /\ [][NextTime]_vars

(* the month and day the entry names (read off the input, not by the parser) *)
EntryMonth == CHOOSE mo \in 1..12 : SubSeq(logdata_dict[kTs].v, 1, 3) = MonthNames[mo]
EntryDay ==
    CHOOSE d \in 1..31 :
        \E tm \in SyslogTimes : logdata_dict[kTs].v = SyslogText(EntryMonth, d, tm)

ReferenceInstant == AddHours(utcnow, TD_OFFSET12)

DayExistsIn(y) == EntryDay <= DaysInMonth(y, EntryMonth)

(* C7 as stated: for a month/day that exists in the reference year or in the *)
(* year before it, get_timestamp returns, without failure, an instant that   *)
(* is not later than the reference instant (current UTC + 12 hours).          *)
C7_SyslogNotAfterReference ==
    (/\ parserPc \in {"raised", "timestamp"}
     /\ (DayExistsIn(ReferenceInstant.v.year) \/ DayExistsIn(ReferenceInstant.v.year - 1)))
    => (/\ parserPc = "timestamp"
        /\ ~Later(timestamp, ReferenceInstant))

(* C7, the case the specification gives: "Dec 31 23:59:59" with the reference *)
(* 2024-01-02T00:00:00Z resolves to 2023-12-31T23:59:59.                       *)
C7_Dec31Example ==
    (/\ parserPc \in {"raised", "timestamp"}
     /\ logdata_dict[kTs] = PyStr(SyslogText(12, 31, <<"2", "3", ":", "5", "9", ":", "5", "9">>))
     /\ utcnow = UtcDatetime(2024, 1, 1, 12, 0, 0)
     /\ logconfig.timestamp_tz = <<"0">>)
    => timestamp = UtcDatetime(2023, 12, 31, 23, 59, 59)

C7_Dec31Witness ==
    /\ parserPc = "timestamp"
    /\ logdata_dict[kTs] = PyStr(SyslogText(12, 31, <<"2", "3", ":", "5", "9", ":", "5", "9">>))
    /\ utcnow = UtcDatetime(2024, 1, 1, 12, 0, 0)
    /\ logconfig.timestamp_tz = <<"0">>

----------------------------------------------------------------------------
(* indexname over rotation policies and timestamps *)

sNone == <<"n", "o", "n", "e">>
sYearly == <<"y", "e", "a", "r", "l", "y">>
sAtTimestamp == <<"@", "t", "i", "m", "e", "s", "t", "a", "m", "p">>

RotationInputs == {sAuto, sNone, sDaily, sWeekly, sMonthly, sYearly}

IndexTzInputs == {<< >>, <<"9">>, <<"-", "8">>}

IndexDates ==
    { <<2020, 12, 31>>, <<2021, 1, 1>>, <<2021, 1, 3>>, <<2021, 1, 4>>,
      <<2022, 6, 15>>, <<2023, 1, 1>>, <<2024, 1, 1>>, <<2024, 12, 30>> }

IndexHours == {0, 20}

InitIndex ==
    /\ parserPc = "index"
    /\ \E rot \in RotationInputs, tz \in IndexTzInputs, it \in {sEventIngested, sAtTimestamp} :
        logconfig = [BaseConfig EXCEPT !.index_rotation = rot, !.index_tz = tz, !.index_time = it]
    /\ \E d \in IndexDates, h \in IndexHours :
        timestamp = UtcDatetime(d[1], d[2], d[3], h, 30, 0)
    /\ event_ingested \in {UtcDatetime(2024, 12, 31, 23, 0, 0), UtcDatetime(2021, 1, 2, 3, 4, 5)}
    /\ utcnow = event_ingested
    /\ logdata_dict = EmptyMap
    /\ output = None
    /\ logdata = None
    /\ meta = None
    /\ PathIdle
    /\ AdapterIdle

(* the caller reads logparser.indexname *)
IndexName ==
    /\ parserPc = "index"
    /\ output' = indexname(logconfig, timestamp, event_ingested)
    /\ parserPc' = IF IsError(output') THEN "failed" ELSE "indexed"
    /\ UNCHANGED <<logdata, meta, logconfig, logdata_dict, utcnow, timestamp, event_ingested,
                   pathVars, adapterVars>>

NextIndex == IndexName

SpecIndex == InitIndex /\ [][NextIndex]_vars

(* the datetime that drives the rotation, in the rotation timezone *)
DrivingDate ==
    LET dt0 == IF logconfig.index_time = sEventIngested THEN event_ingested ELSE timestamp IN
    IF logconfig.index_tz = << >> THEN dt0
    ELSE AsTimezone(dt0, IntOfLiteral(logconfig.index_tz) * 60)

(* C8 as stated: with the rotation policy `none` the index name is the base  *)
(* name unchanged, without a date suffix, for every timestamp.                *)
C8_NoneReturnsBase ==
    (parserPc = "indexed" /\ logconfig.index_rotation = sNone)
    => output = PyStr(logconfig.index_name)

(* C8 amended: the policy that returns the base name unchanged is `auto`;    *)
(* with `none` (as with any unrecognised policy) the yearly suffix -YYYY is   *)
(* appended.                                                                   *)
C8_AutoReturnsBase ==
    /\ (parserPc = "indexed" /\ logconfig.index_rotation = sAuto)
       => output = PyStr(logconfig.index_name)
    /\ (parserPc = "indexed" /\ logconfig.index_rotation = sNone)
       => output = PyStr(logconfig.index_name \o <<"-">> \o Pad(DrivingDate.v.year, 4))

C8_Witness ==
    /\ parserPc = "indexed"
    /\ logconfig.index_rotation = sAuto
    /\ logconfig.index_tz = <<"9">>
    /\ output = PyStr(logconfig.index_name)

(* ISO-8601 week-of-year *)
IsoWeeksInYear(y) ==
    IF Weekday(y, 1, 1) = 3 \/ (IsLeap(y) /\ Weekday(y, 1, 1) = 2) THEN 53 ELSE 52

IsoWeek(y, m, d) ==
    LET wk == (YearDay0(y, m, d) + 1 - (Weekday(y, m, d) + 1) + 10) \div 7 IN
    IF wk < 1 THEN IsoWeeksInYear(y - 1)
    ELSE IF wk > IsoWeeksInYear(y) THEN 1
    ELSE wk

(* the number of Mondays of the year y up to and including the day m/d *)
MondaysUpTo(y, m, d) ==
    Cardinality({k \in 0..YearDay0(y, m, d) : (Weekday(y, 1, 1) + k) % 7 = 0})

(* C9 as stated: with the policy `weekly` the name is base-YYYY-wWW where WW *)
(* is the two-digit ISO-8601 week-of-year of the driving date.                *)
C9_WeeklyIsoWeek ==
    (parserPc = "indexed" /\ logconfig.index_rotation = sWeekly)
    => output = PyStr(logconfig.index_name \o <<"-">> \o Pad(DrivingDate.v.year, 4) \o <<"-", "w">>
                      \o Pad(IsoWeek(DrivingDate.v.year, DrivingDate.v.month, DrivingDate.v.day), 2))

(* C9 amended: WW is the two-digit week number of strftime('%W'): the number *)
(* of Mondays of the calendar year YYYY up to and including the driving date *)
(* (00 for the days before the year's first Monday, at most 53).              *)
C9_WeeklyMondayWeek ==
    (parserPc = "indexed" /\ logconfig.index_rotation = sWeekly)
    => output = PyStr(logconfig.index_name \o <<"-">> \o Pad(DrivingDate.v.year, 4) \o <<"-", "w">>
                      \o Pad(MondaysUpTo(DrivingDate.v.year, DrivingDate.v.month, DrivingDate.v.day), 2))

C9_Witness ==
    /\ parserPc = "indexed"
    /\ logconfig.index_rotation = sWeekly
    /\ logconfig.index_time = sAtTimestamp
    /\ logconfig.index_tz = <<"9">>
    /\ timestamp = UtcDatetime(2020, 12, 31, 20, 30, 0)
    /\ output = PyStr(<<"l", "o", "g", "-", "x", "-", "2", "0", "2", "1", "-", "w", "0", "0">>)

----------------------------------------------------------------------------
(* The per-entry pipeline: one LogParser and the calls made on it, in the    *)
(* order of the stages. meta holds the constructor's arguments, the ignore   *)
(* rules handed to check_ignored_log and the module's reader_city            *)

Fail(e) ==
    /\ parserPc' = "failed"
    /\ output' = e

(* LogParser(logdata, logtype, logconfig, ...): __init__ runs logdata_to_dict *)
Construct ==
    /\ parserPc = "new"
    /\ \E r \in {logdata_to_dict(meta, logdata)} :
        IF IsError(r) THEN Fail(r) /\ UNCHANGED logdata_dict
        ELSE /\ parserPc' = "constructed"
             /\ logdata_dict' = r.v
             /\ UNCHANGED output
    /\ UNCHANGED <<logdata, meta, logconfig, utcnow, timestamp, event_ingested, pathVars,
                   adapterVars>>

AddBasicField ==
    /\ parserPc = "constructed"
    /\ \E r \in {add_basic_field(meta, logconfig, logdata, logdata_dict, utcnow)} :
        /\ logconfig' = r.cfg
        /\ timestamp' = r.ts
        /\ event_ingested' = r.ing
        /\ IF IsError(r.d) THEN Fail(r.d) /\ UNCHANGED logdata_dict
           ELSE /\ parserPc' = "basic"
                /\ logdata_dict' = r.d.v
                /\ UNCHANGED output
    /\ UNCHANGED <<logdata, meta, utcnow, pathVars, adapterVars>>

CheckIgnoredLog ==
    /\ parserPc = "basic"
    /\ \E r \in {check_ignored_log(logdata_dict, meta.ignore_rules)} :
        IF IsError(r) THEN Fail(r)
        ELSE /\ parserPc' = IF r = PyInt(1) THEN "ignored" ELSE "checked"
             /\ UNCHANGED output
    /\ UNCHANGED <<logdata, meta, logconfig, logdata_dict, utcnow, timestamp, event_ingested,
                   pathVars, adapterVars>>

(* a stage that rewrites __logdata_dict: r is the dict afterwards or the     *)
(* exception raised                                                           *)
Stage(r, nextPc) ==
    /\ IF IsError(r) THEN Fail(r) /\ UNCHANGED logdata_dict
       ELSE /\ parserPc' = nextPc
            /\ logdata_dict' = r.v
            /\ UNCHANGED output
    /\ UNCHANGED <<logdata, meta, logconfig, utcnow, timestamp, event_ingested, pathVars,
                   adapterVars>>

CleanMultiTypeField ==
    /\ parserPc = "checked"
    /\ \E r \in {clean_multi_type_field(logconfig, logdata_dict)} : Stage(r, "cleaned")

TransformToEcs ==
    /\ parserPc = "cleaned"
    /\ \E r \in {transform_to_ecs(meta, logconfig, logdata_dict)} : Stage(r, "ecs")

TransformByScript ==
    /\ parserPc = "ecs"
    /\ \E r \in {transform_by_script(meta, logconfig, logdata_dict)} : Stage(r, "script")

Enrich ==
    /\ parserPc = "script"
    /\ \E r \in {enrich(meta.reader_city, logconfig, logdata_dict)} : Stage(r, "index")

(* the caller reads logparser.index_id *)
IndexId ==
    /\ parserPc = "indexed"
    /\ \E r \in {index_id(logconfig, logdata_dict)} :
        IF IsError(r) THEN Fail(r)
        ELSE /\ parserPc' = "identified"
             /\ output' = [index |-> output, id |-> r]
    /\ UNCHANGED <<logdata, meta, logconfig, logdata_dict, utcnow, timestamp, event_ingested,
                   pathVars, adapterVars>>

(* the caller reads logparser.json: the cleanup, then the serialization *)
Json ==
    /\ parserPc = "identified"
    /\ logdata_dict' = CleanedDict(logdata_dict)
    /\ output' = [index |-> output.index, id |-> output.id, json |-> json(logdata_dict)]
    /\ parserPc' = "accepted"
    /\ UNCHANGED <<logdata, meta, logconfig, utcnow, timestamp, event_ingested, pathVars,
                   adapterVars>>

----------------------------------------------------------------------------
(* The pipeline over log type configurations and raw entries *)

(* {k1: v1, ...} from the pairs <<k, v>> *)
Obj(pairs) ==
    [k \in {pairs[i][1] : i \in 1..Len(pairs)} |->
        pairs[CHOOSE i \in 1..Len(pairs) : pairs[i][1] = k /\ \A j \in (i + 1)..Len(pairs) : pairs[j][1] # k][2]]

S(x) == PyStr(x)

BaseMeta ==
    [ msgformat |-> N.sS3, logformat |-> N.sJson, logtype |-> <<"f", "w">>, header |-> None,
      s3bucket |-> S(<<"b">>), s3key |-> S(<<"k">>), loggroup |-> None, logstream |-> None,
      accountid |-> None, region |-> None, log_pattern_prog |-> None, sf_module |-> None,
      ignore_rules |-> None, reader_city |-> FALSE ]

IsoText == <<"2", "0", "2", "4", "-", "0", "1", "-", "0", "1", "T", "0", "0", ":", "0", "0", ":", "0", "0">>

(* a firewall log in JSON with an id field, mapped fields and an ignore rule *)
MappedConfig ==
    [BaseConfig EXCEPT
        !.doc_id = <<"i", "d">>,
        !.ecs = <<"c", "l", "o", "u", "d", ".", "a", "c", "c", "o", "u", "n", "t", ".", "i", "d", " ", "c", "l", "o", "u", "d", ".", "r", "e", "g", "i", "o", "n", " ", "s", "o", "u", "r", "c", "e", ".", "i", "p", " ", "e", "v", "e", "n", "t", ".", "m", "o", "d", "u", "l", "e">>,
        !.keys = Obj(<< <<<<"c", "l", "o", "u", "d", ".", "a", "c", "c", "o", "u", "n", "t", ".", "i", "d">>, <<"a", "c", "c", "t">>>>, <<<<"c", "l", "o", "u", "d", ".", "r", "e", "g", "i", "o", "n">>, <<"r", "e", "g">>>>,
                        <<<<"s", "o", "u", "r", "c", "e", ".", "i", "p">>, <<"s", "r", "c">>>>, <<<<"e", "v", "e", "n", "t", ".", "m", "o", "d", "u", "l", "e">>, <<"m", "o", "d">>>> >>),
        !.geoip = <<"s", "o", "u", "r", "c", "e">>,
        !.timestamp_key = <<"t", "i", "m", "e">>, !.timestamp_format = sIso8601]

MappedEntries ==
    { PyDict(Obj(<< <<<<"i", "d">>, S(<<"7">>)>>, <<<<"s", "r", "c">>, S(GeoIpBoth)>>, <<<<"a", "c", "c", "t">>, S(<<"1", "1", "1">>)>>,
                    <<<<"r", "e", "g">>, S(<<"e", "u">>)>>, <<<<"m", "o", "d">>, S(<<"m", "2">>)>>, <<<<"t", "i", "m", "e">>, S(IsoText)>> >>)),
      PyDict(Obj(<< <<<<"i", "d">>, S(<<"-">>)>>, <<<<"s", "r", "c">>, S(<<"9", "9", "9">>)>>, <<<<"t", "i", "m", "e">>, S(IsoText)>> >>)),
      PyDict(Obj(<< <<<<"s", "r", "c">>, S(GeoIpAsnOnly)>>, <<<<"t", "i", "m", "e">>, S(IsoText)>> >>)),
      PyDict(Obj(<< <<<<"i", "d">>, S(<<"7">>)>>, <<<<"t", "i", "m", "e">>, S(<<"x">>)>> >>)),
      PyDict(Obj(<< <<<<"i", "d">>, S(<<"8">>)>>, <<<<"m", "o", "d">>, S(<<"-">>)>>, <<<<"t", "i", "m", "e">>, S(IsoText)>> >>)),
      PyDict(Obj(<< <<<<"i", "d">>, S(<< >>)>>, <<<<"s", "o", "u", "r", "c", "e">>, S(<<"t", "e", "x", "t">>)>>, <<<<"t", "i", "m", "e">>, S(IsoText)>> >>)),
      PyDict(Obj(<< <<<<"i", "d">>, PyInt(5)>>, <<<<"s", "r", "c">>, S(<<":", ":", "1">>)>>, <<<<"t", "i", "m", "e">>, S(IsoText)>>,
                    <<<<"d", "e", "t", "a", "i", "l">>, PyDict(One(kA, PyDict(One(kB, PyDict(One(kC, S(<<"-">>)))))))>> >>)),
      PyDict(Obj(<< <<<<"i", "d">>, S(<<"9">>)>>, <<<<"s", "r", "c">>, S(<<"1", "0", ".", "1", ".", "1", ".", "1">>)>>, <<<<"t", "i", "m", "e">>, S(IsoText)>> >>)) }

MappedMetas ==
    { [BaseMeta EXCEPT !.accountid = a, !.region = r, !.reader_city = g,
                       !.ignore_rules = PyDict(One(<<"s", "r", "c">>, S(<<"1", "0", ".">>)))] :
        a \in {None, S(<<"2", "2", "2">>)}, r \in {None, S(<<"u", "s">>)}, g \in BOOLEAN }

(* a log in JSON with static fields, a mapping of a whole map and a field of *)
(* several types; the id is the digest of the message                         *)
StaticConfig ==
    [BaseConfig EXCEPT
        !.ecs = <<"c", "l", "o", "u", "d">>,
        !.static_ecs = <<"c", "l", "o", "u", "d", ".", "r", "e", "g", "i", "o", "n", " ", "e", "v", "e", "n", "t", ".", "k", "i", "n", "d", " ", "c", "l", "o", "u", "d", ".", "a", "c", "c", "o", "u", "n", "t", ".", "i", "d">>,
        !.keys = Obj(<< <<<<"c", "l", "o", "u", "d">>, <<"c", "l">>>>, <<<<"c", "l", "o", "u", "d", ".", "r", "e", "g", "i", "o", "n">>, <<"s", "t", "-", "r">>>>, <<<<"e", "v", "e", "n", "t", ".", "k", "i", "n", "d">>, <<"e", "v", "e", "n", "t">>>>,
                        <<<<"c", "l", "o", "u", "d", ".", "a", "c", "c", "o", "u", "n", "t", ".", "i", "d">>, <<"9", "9", "9">>>> >>),
        !.json_to_text = <<"d", "e", "t", "a", "i", "l">>]

StaticEntries ==
    { PyDict(Obj(<< <<<<"c", "l">>, PyDict(Obj(<< <<N.kRegion, S(<<"e", "u">>)>>,
                                           <<N.kAccount, PyDict(One(N.kId, S(<<"1", "1", "1">>)))>> >>))>>,
                    <<N.kCloud, PyDict(One(N.kRegion, S(<<"r", "a", "w">>)))>>,
                    <<N.kEvent, PyDict(One(<<"k", "i", "n", "d">>, S(<<"r", "a", "w", "k", "i", "n", "d">>)))>>,
                    <<<<"d", "e", "t", "a", "i", "l">>, S(<<"x", "{", "y">>)>> >>)),
      PyDict(Obj(<< <<<<"c", "l">>, S(<<"a", "w", "s", "-", "x">>)>>, <<<<"d", "e", "t", "a", "i", "l">>, PyInt(5)>> >>)),
      PyDict(Obj(<< <<<<"x">>, S(<<"y">>)>> >>)),
      PyDict(Obj(<< <<<<"d", "e", "t", "a", "i", "l">>, PyDict(One(kA, S(<<"b">>)))>>, <<N.kCloud, S(<<"r", "a", "w", "s", "t", "r">>)>> >>)) }

StaticMetas ==
    { [BaseMeta EXCEPT !.accountid = a, !.region = r] :
        a \in {None, S(<<"2", "2", "2">>)}, r \in {None, S(<<"u", "s">>)} }

(* a text log with a named-group pattern and a transform script *)
TextConfig ==
    [BaseConfig EXCEPT
        !.doc_id = <<"i", "d">>, !.ecs = <<"s", "o", "u", "r", "c", "e", ".", "i", "p">>, !.keys = Obj(<< <<<<"s", "o", "u", "r", "c", "e", ".", "i", "p">>, <<"s", "r", "c">>>> >>),
        !.script_ecs = <<"1">>]

TextEntries == { S(<<"7", " ", "8", ".", "8", ".", "8", ".", "8">>), S(<<"7">>), S(<<"-", " ", "1", ".", "1", ".", "1", ".", "1">>) }

TextMetas ==
    { [BaseMeta EXCEPT !.logformat = N.sText, !.log_pattern_prog = p, !.sf_module = sf] :
        p \in {None, Pattern(<<<<"i", "d">>, <<"s", "r", "c">>>>)}, sf \in {None, sfKeep, sfFail} }

(* a CSV log: the header line names the fields *)
CsvConfig ==
    [BaseConfig EXCEPT
        !.doc_id = <<"i", "d">>, !.ecs = <<"s", "o", "u", "r", "c", "e", ".", "i", "p">>, !.keys = Obj(<< <<<<"s", "o", "u", "r", "c", "e", ".", "i", "p">>, <<"s", "r", "c", "_", "i", "p">>>> >>)]

CsvEntries == { S(<<"7", " ", "8", ".", "8", ".", "8", ".", "8">>), S(<<"-">>) }

CsvMetas == { [BaseMeta EXCEPT !.logformat = N.sCsv, !.header = S(<<"i", "d", " ", "s", "r", "c", "-", "i", "p">>)] }

(* CloudWatch Logs records from Kinesis, with the deprecated timestamp setting *)
StreamConfig == [BaseConfig EXCEPT !.timestamp = <<"t", "i", "m", "e", ",", "i", "s", "o", "8", "6", "0", "1">>]

StreamEntries ==
    { PyDict(Obj(<< <<N.kMessage, S(<<"m">>)>>,
                    <<N.kExtractedFields, PyDict(Obj(<< <<<<"i", "d">>, S(<<"7">>)>>, <<<<"t", "i", "m", "e">>, S(IsoText)>> >>))>> >>)),
      PyDict(Obj(<< <<N.kExtractedFields, PyDict(Obj(<< <<<<"t", "i", "m", "e">>, S(IsoText)>> >>))>> >>)),
      PyDict(Obj(<< <<kA, S(<<"b">>)>>, <<<<"t", "i", "m", "e">>, S(IsoText)>> >>)) }

StreamMetas ==
    { [BaseMeta EXCEPT !.msgformat = N.sKinesis, !.s3bucket = None, !.s3key = None,
                       !.loggroup = S(<<"g">>), !.logstream = S(<<"s">>), !.accountid = S(<<"2", "2", "2">>)] }

(* [cfg, metas, entries]: a log type with the entries and arguments it meets *)
Scenarios ==
    { [cfg |-> MappedConfig, metas |-> MappedMetas, entries |-> MappedEntries],
      [cfg |-> StaticConfig, metas |-> StaticMetas, entries |-> StaticEntries],
      [cfg |-> TextConfig, metas |-> TextMetas, entries |-> TextEntries],
      [cfg |-> CsvConfig, metas |-> CsvMetas, entries |-> CsvEntries],
      [cfg |-> StreamConfig, metas |-> StreamMetas, entries |-> StreamEntries] }

ParserNows == { UtcDatetime(2024, 1, 1, 12, 0, 0), UtcDatetime(2025, 6, 15, 0, 0, 0) }

InitParser ==
    /\ parserPc = "new"
    /\ \E sc \in Scenarios :
        /\ logconfig = sc.cfg
        /\ meta \in sc.metas
        /\ logdata \in sc.entries
    /\ utcnow \in ParserNows
    /\ logdata_dict = EmptyMap
    /\ timestamp = None
    /\ event_ingested = None
    /\ output = None
    /\ PathIdle
    /\ AdapterIdle

NextParser ==
    \/ Construct
    \/ AddBasicField
    \/ CheckIgnoredLog
    \/ CleanMultiTypeField
    \/ TransformToEcs
    \/ TransformByScript
    \/ Enrich
    \/ IndexName
    \/ IndexId
    \/ Json

SpecParser == InitParser /\ [][NextParser]_vars

----------------------------------------------------------------------------
(* Properties of the pipeline *)

Missing == [t |-> "Missing", v |-> 0]

(* the value at the dotted path ks of the document x, Missing without one *)
RECURSIVE ValueAt(_, _)
ValueAt(x, ks) ==
    IF ks = << >> THEN x
    ELSE IF IsDict(x) /\ Head(ks) \in DOMAIN x.v THEN ValueAt(x.v[Head(ks)], Tail(ks))
    ELSE Missing

PresentNonEmpty(x) ==
    /\ x \notin {Missing, None, PyStr(<< >>)}
    /\ ~(IsDict(x) /\ DOMAIN x.v = {})

(* C1 as stated: the final document of every accepted entry contains @id,    *)
(* @timestamp, event.module and event.ingested, each present and non-empty,   *)
(* for any configuration (a document-id source field and ECS mappings         *)
(* included) and any raw entry.                                               *)
C1_AcceptedHasBasicFields ==
    parserPc = "accepted"
    => \A path \in {<<N.kAtId>>, <<N.kAtTimestamp>>, <<N.kEvent, N.kModule>>, <<N.kEvent, N.kIngested>>} :
            PresentNonEmpty(ValueAt(PyDict(logdata_dict), path))

C10_DefaultsWitness ==
    /\ parserPc = "ecs"
    /\ logconfig.static_ecs # << >>
    /\ ValueAt(logdata, <<<<"c", "l">>>>) = Missing
    /\ meta.region = PyStr(<<"u", "s">>)
    /\ meta.accountid = PyStr(<<"2", "2", "2">>)
    /\ ValueAt(PyDict(logdata_dict), <<N.kCloud, N.kRegion>>) = PyStr(<<"s", "t", "-", "r">>)
    /\ ValueAt(PyDict(logdata_dict), <<N.kCloud, N.kAccount, N.kId>>) = PyStr(<<"9", "9", "9">>)

----------------------------------------------------------------------------
(* The cleanup at serialization, over documents of several nesting depths *)

MaxDepth == 3

CleanupLeaves ==
    { PyStr(<< >>), PyStr(<<"-">>), PyStr(<<"n", "u", "l", "l">>), PyStr(<<"x">>),
      PyInt(0), None, PyDict(EmptyMap), PyList(<<PyStr(<<"-">>)>>) }

(* values nested at most n maps deep: a leaf, or a map with the key a and,   *)
(* optionally, a leaf beside it at the key b                                  *)
RECURSIVE NestedValues(_)
NestedValues(n) ==
    IF n = 0 THEN CleanupLeaves
    ELSE CleanupLeaves
         \cup {PyDict(One(kA, c)) : c \in NestedValues(n - 1)}
         \cup {PyDict(SetKey(One(kA, c), kB, l)) :
                    c \in NestedValues(n - 1), l \in {PyStr(<<"x">>), PyStr(<<"-">>)}}

(* the documents: maps with up to MaxDepth maps nested below them *)
NestedDocs == {x.v : x \in {y \in NestedValues(MaxDepth + 1) : IsDict(y)}}

InitCleanup ==
    /\ parserPc = "identified"
    /\ logdata_dict \in NestedDocs
    /\ logconfig = BaseConfig
    /\ output = [index |-> PyStr(BaseConfig.index_name), id |-> PyStr(<<"1">>)]
    /\ logdata = None
    /\ meta = None
    /\ utcnow = None
    /\ timestamp = None
    /\ event_ingested = None
    /\ PathIdle
    /\ AdapterIdle

NextCleanup == Json

SpecCleanup == InitCleanup /\ [][NextCleanup]_vars

(* a string equal to '', '-' or 'null' is a value somewhere in x *)
RECURSIVE HasSentinelLeaf(_)
HasSentinelLeaf(x) ==
    CASE x.t = "str" -> x.v \in Sentinels
      [] x.t = "dict" -> \E k \in DOMAIN x.v : HasSentinelLeaf(x.v[k])
      [] x.t = "list" -> \E i \in 1..Len(x.v) : HasSentinelLeaf(x.v[i])
      [] OTHER -> FALSE

(* an empty map is a value somewhere in x *)
RECURSIVE HasEmptyMap(_)
HasEmptyMap(x) ==
    CASE x.t = "dict" -> \E k \in DOMAIN x.v :
                            \/ (IsDict(x.v[k]) /\ DOMAIN x.v[k].v = {})
                            \/ HasEmptyMap(x.v[k])
      [] x.t = "list" -> \E i \in 1..Len(x.v) :
                            \/ (IsDict(x.v[i]) /\ DOMAIN x.v[i].v = {})
                            \/ HasEmptyMap(x.v[i])
      [] OTHER -> FALSE

(* C2 as stated: after the cleanup performed by json, no string leaf at any  *)
(* depth of the document is '', '-' or 'null', and no nested map at any depth *)
(* is empty, maps emptied by the cleanup itself included.                     *)
C2_CleanupComplete ==
    parserPc = "accepted"
    => (/\ ~HasSentinelLeaf(PyDict(logdata_dict))
        /\ ~HasEmptyMap(PyDict(logdata_dict)))

----------------------------------------------------------------------------
(* Text helpers of the source adapters *)

Capitals == <<"A", "B", "C", "D", "E", "F", "G", "H", "I", "J", "K", "L", "M", "N", "O", "P", "Q", "R", "S", "T", "U", "V", "W", "X", "Y", "Z">>
Alphabet == <<"a", "b", "c", "d", "e", "f", "g", "h", "i", "j", "k", "l", "m", "n", "o", "p", "q", "r", "s", "t", "u", "v", "w", "x", "y", "z">>

(* str.lower() *)
ToLower(s) ==
    [i \in 1..Len(s) |->
        IF \E j \in 1..26 : Capitals[j] = s[i]
        THEN Alphabet[CHOOSE j \in 1..26 : Capitals[j] = s[i]]
        ELSE s[i]]

(* str.strip(): whitespace removed at both ends *)
RECURSIVE LStrip(_)
LStrip(s) == IF s # << >> /\ Head(s) \in WsSet THEN LStrip(Tail(s)) ELSE s

RECURSIVE RStrip(_)
RStrip(s) ==
    IF s # << >> /\ s[Len(s)] \in WsSet THEN RStrip(SubSeq(s, 1, Len(s) - 1)) ELSE s

Strip(s) == RStrip(LStrip(s))

(* s[:n] *)
Prefix(s, n) == SubSeq(s, 1, IF Len(s) < n THEN Len(s) ELSE n)

(* RE_ACCOUNT.search(s).group(1): twelve digits between two '/', None        *)
(* without a match                                                            *)
AccountLen == 12

AccountAt(s, i) ==
    /\ i + AccountLen + 1 <= Len(s)
    /\ s[i] = "/"
    /\ \A j \in 1..AccountLen : s[i + j] \in DigitSet
    /\ s[i + AccountLen + 1] = "/"

ReAccount(s) ==
    IF \E i \in 1..Len(s) : AccountAt(s, i)
    THEN PyStr(SubSeq(s, (CHOOSE i \in 1..Len(s) :
                            AccountAt(s, i) /\ \A j \in 1..(i - 1) : ~AccountAt(s, j)) + 1,
                         (CHOOSE i \in 1..Len(s) :
                            AccountAt(s, i) /\ \A j \in 1..(i - 1) : ~AccountAt(s, j)) + AccountLen))
    ELSE None

(* RE_REGION at the position i of s: the length matched, 0 without a match;  *)
(* 'global', or a two-letter prefix, '-', letters, '-' and one digit          *)
RegionPrefixes == {<<"u", "s">>, <<"a", "p">>, <<"c", "a">>, <<"e", "u">>, <<"m", "e">>, <<"s", "a">>, <<"a", "f">>}

RECURSIVE LetterRun(_, _)
LetterRun(s, i) ==
    IF i <= Len(s) /\ s[i] \in (Upper \cup Lower) THEN 1 + LetterRun(s, i + 1) ELSE 0

RegionAt(s, i) ==
    IF i + 5 <= Len(s) /\ SubSeq(s, i, i + 5) = <<"g", "l", "o", "b", "a", "l">> THEN 6
    ELSE IF i + 2 <= Len(s) /\ SubSeq(s, i, i + 1) \in RegionPrefixes /\ s[i + 2] = "-"
    THEN Bind(LetterRun(s, i + 3), LAMBDA n :
            IF /\ n >= 1
               /\ i + 3 + n + 1 <= Len(s)
               /\ s[i + 3 + n] = "-"
               /\ s[i + 3 + n + 1] \in DigitSet
            THEN 3 + n + 2 ELSE 0)
    ELSE 0

(* RE_REGION.search(s).group(1), None without a match *)
RECURSIVE ReRegionFrom(_, _)
ReRegionFrom(s, i) ==
    IF i > Len(s) THEN None
    ELSE Bind(RegionAt(s, i), LAMBDA n :
            IF n > 0 THEN PyStr(SubSeq(s, i, i + n - 1)) ELSE ReRegionFrom(s, i + 1))

ReRegion(s) == ReRegionFrom(s, 1)

(* get_mime(data): data are the first bytes of the object *)
TextBytes == {7, 8, 9, 10, 12, 13, 27} \cup ((32..255) \ {127})

get_mime(data) ==
    IF Len(data) >= 2 /\ SubSeq(data, 1, 2) = <<31, 139>> THEN "gzip"
    ELSE IF Len(data) >= 2 /\ SubSeq(data, 1, 2) = <<80, 75>> THEN "zip"
    ELSE IF Len(data) >= 2 /\ SubSeq(data, 1, 2) = <<66, 90>> THEN "bzip2"
    ELSE IF \E i \in 1..Len(data) : data[i] \notin TextBytes THEN "binary"
    ELSE "text"

(* json.JSONDecoder().decode / json.loads with strict=True: a control        *)
(* character inside a string is an error                                      *)
ControlChars == {"LF", "CR", "TAB", "FF", "BS"}

InsideString(s, i) ==
    Cardinality({j \in 1..(i - 1) : Unescaped(s, j, "\"")}) % 2 = 1

ControlInString(s) == \E i \in 1..Len(s) : s[i] \in ControlChars /\ InsideString(s, i)

LoadsStrict(text) == IF ControlInString(text) THEN ParseFail ELSE Loads(text)

----------------------------------------------------------------------------
(* The configuration: the sections in the order of config.sections().  A     *)
(* section has the fields name, s3_key, loggroup, s3_key_ignored,             *)
(* file_format, json_delimiter, text_header_line_number, and the settings the *)
(* parser reads (logconfig).  The patterns of the model are literal texts, so *)
(* re.search(p, s) is the test that p occurs in s.                            *)

HasSection(cfg, name) == \E i \in 1..Len(cfg) : cfg[i].name = name

SectionOf(cfg, name) == cfg[CHOOSE i \in 1..Len(cfg) : cfg[i].name = name]

(* config[name][field], KeyError without the section *)
ConfigItem(cfg, name, Field(_)) ==
    IF HasSection(cfg, name) THEN PyStr(Field(SectionOf(cfg, name))) ELSE KeyError

ReSearch(p, text) == IsSubstr(p, text)

(* x[key] *)
Item(x, key) ==
    IF IsDict(x) THEN (IF key \in DOMAIN x.v THEN x.v[key] ELSE KeyError) ELSE TypeError

(* the values a for loop over x takes *)
Iterate(x) ==
    CASE IsError(x) -> x
      [] IsList(x) -> x
      [] IsDict(x) -> PyList([i \in 1..Cardinality(DOMAIN x.v) |-> PyStr(KeySeq(DOMAIN x.v)[i])])
      [] IsStr(x) -> PyList([i \in 1..Len(x.v) |-> PyStr(<<x.v[i]>>)])
      [] OTHER -> TypeError

(* file.readlines() in text mode: the lines with their line ends, '\r' and   *)
(* '\r\n' read as '\n'                                                        *)
Newlines(text) ==
    SelectSeq([i \in 1..Len(text) |->
                  IF text[i] # "CR" THEN text[i]
                  ELSE IF i < Len(text) /\ text[i + 1] = "LF" THEN "DROP"
                  ELSE "LF"],
              LAMBDA c : c # "DROP")

(* the positions where the lines of s end *)
LineEnds(s) ==
    {i \in 1..Len(s) : s[i] = "LF"} \cup (IF s # << >> /\ s[Len(s)] # "LF" THEN {Len(s)} ELSE {})

ReadLines(text) ==
    Bind(Newlines(text), LAMBDA s :
    Bind(LineEnds(s), LAMBDA ends :
        [k \in 1..Cardinality(ends) |->
            Bind(CHOOSE e \in ends : Cardinality({x \in ends : x <= e}) = k, LAMBDA e :
                SubSeq(s, (IF k = 1 THEN 0
                           ELSE CHOOSE b \in ends : Cardinality({x \in ends : x <= b}) = k - 1) + 1,
                       e))]))

(* lines[n:] *)
SliceFrom(lines, n) ==
    Bind(IF n >= 0 THEN n ELSE (IF Len(lines) + n < 0 THEN 0 ELSE Len(lines) + n), LAMBDA k :
        SubSeq(lines, k + 1, Len(lines)))

(* the state of a generator that has ended *)
Closed == [t |-> "generator", mode |-> "closed", lines |-> << >>, pending |-> << >>]

Yield(val, g, own) == [kind |-> "yield", value |-> val, gen |-> g, own |-> own]
Raise(err) == [kind |-> "raise", value |-> err, gen |-> Closed, own |-> None]
StopIteration == [kind |-> "stop", value |-> None, gen |-> Closed, own |-> None]

----------------------------------------------------------------------------
(* LogS3.  An S3 record has the fields s3bucket, s3key, head (the first      *)
(* bytes of the object), text (the content once decompressed and decoded)    *)
(* and localfile (the local file that has the name of the first member of a  *)
(* zip archive: found or not, and its text).                                 *)

RECURSIVE S3LogtypeFrom(_, _, _)
S3LogtypeFrom(cfg, s3key, i) ==
    IF i > Len(cfg) THEN N.sUnknown
    ELSE IF ReSearch(cfg[i].s3_key, s3key) THEN cfg[i].name
    ELSE S3LogtypeFrom(cfg, s3key, i + 1)

LogS3_logtype(cfg, rec) == S3LogtypeFrom(cfg, rec.s3key, 1)

S3UnknownReason == <<"U", "n", "k", "n", "o", "w", "n", " ", "l", "o", "g", " ", "t", "y", "p", "e", " ", "i", "n", " ", "S", "3", " ", "k", "e", "y", ",", " ">>
S3IgnoredReason == <<"i", "m", "p", "o", "s", "s", "i", "b", "l", "e", " ", "t", "o", " ", "f", "i", "n", "d", " ", "l", "o", "g", "t", "y", "p", "e", " ", "f", "r", "o", "m", " ", "S", "3", " ", "k", "e", "y", ",", " ">>

(* the reason (a text), False (0) or the KeyError of config[logtype] *)
LogS3_check_ignore(cfg, rec) ==
    Bind(LogS3_logtype(cfg, rec), LAMBDA lt :
        IF IsSubstr(N.sUnknown, lt) THEN PyStr(S3UnknownReason \o rec.s3key)
        ELSE Bind(ConfigItem(cfg, lt, LAMBDA sec : sec.s3_key_ignored), LAMBDA ig :
            IF IsError(ig) THEN ig
            ELSE IF ig.v # << >> /\ IsSubstr(ig.v, rec.s3key)
            THEN PyStr(S3IgnoredReason \o rec.s3key)
            ELSE PyInt(0)))

LogS3_file_format(cfg, rec) ==
    ConfigItem(cfg, LogS3_logtype(cfg, rec), LAMBDA sec : sec.file_format)

LogS3_accountid(rec) == ReAccount(rec.s3key)

LogS3_region(rec) == ReRegion(rec.s3key)

MimeBytes == 16

(* the text of the body, or the exception *)
LogS3_rawdata(rec) ==
    Bind(get_mime(SubSeq(rec.head, 1, IF Len(rec.head) < MimeBytes THEN Len(rec.head)
                                       ELSE MimeBytes)), LAMBDA mime :
        CASE mime \in {"gzip", "text", "bzip2"} -> PyStr(rec.text)
          [] mime = "zip" -> (IF rec.localfile.found THEN PyStr(rec.localfile.text)
                              ELSE Raised("OSError"))
          [] OTHER -> Raised("Exception"))

LogS3_header(cfg, rec) ==
    Bind(LogS3_file_format(cfg, rec), LAMBDA ff :
        IF IsError(ff) THEN ff
        ELSE IF IsSubstr(N.sCsv, ff.v)
        THEN Bind(LogS3_rawdata(rec), LAMBDA body :
                IF IsError(body) THEN body
                ELSE Bind(ReadLines(body.v), LAMBDA lines :
                    IF lines = << >> THEN Raised("IndexError") ELSE PyStr(Strip(lines[1]))))
        ELSE None)

(* logdata_list up to its loop: the generator's state [mode, lines, pending], *)
(* or the exception                                                            *)
S3Lines(rec, Skip(_)) ==
    Bind(LogS3_rawdata(rec), LAMBDA body :
        IF IsError(body) THEN body ELSE PyList(Skip(ReadLines(body.v))))

S3Start(cfg, rec) ==
    Bind(LogS3_file_format(cfg, rec), LAMBDA ff :
        IF IsError(ff) THEN ff
        ELSE IF IsSubstr(N.sText, ff.v)
        THEN Bind(SectionOf(cfg, LogS3_logtype(cfg, rec)).text_header_line_number, LAMBDA h :
                IF ~IsIntLiteral(h) THEN ValueError
                ELSE Bind(S3Lines(rec, LAMBDA ls : SliceFrom(ls, IntOfLiteral(h))), LAMBDA ls :
                    IF IsError(ls) THEN ls
                    ELSE [t |-> "generator", mode |-> "text", lines |-> ls.v, pending |-> << >>]))
        ELSE IF IsSubstr(N.sCsv, ff.v)
        THEN Bind(S3Lines(rec, LAMBDA ls : SliceFrom(ls, 1)), LAMBDA ls :
                IF IsError(ls) THEN ls
                ELSE [t |-> "generator", mode |-> "csv", lines |-> ls.v, pending |-> << >>])
        ELSE IF IsSubstr(N.sJson, ff.v)
        THEN Bind(S3Lines(rec, LAMBDA ls : ls), LAMBDA ls :
                IF IsError(ls) THEN ls
                ELSE [t |-> "generator", mode |-> "json", lines |-> ls.v, pending |-> << >>])
        ELSE Closed)

(* logdata_list from the state g to its next yield, exception or end *)
RECURSIVE S3Next(_, _)
S3Next(sec, g) ==
    IF g.pending # << >>
    THEN Yield(Head(g.pending), [g EXCEPT !.pending = Tail(g.pending)], None)
    ELSE IF g.lines = << >> THEN StopIteration
    ELSE IF g.mode \in {"text", "csv"}
    THEN Yield(PyStr(Strip(Head(g.lines))), [g EXCEPT !.lines = Tail(g.lines)], None)
    ELSE Bind(LoadsStrict(Head(g.lines)), LAMBDA r :
        IF ~r.ok THEN Raise(ValueError)
        ELSE IF sec.json_delimiter # << >>
        THEN Bind(Iterate(Item(r.val, sec.json_delimiter)), LAMBDA items :
                IF IsError(items) THEN Raise(items)
                ELSE S3Next(sec, [g EXCEPT !.lines = Tail(g.lines), !.pending = items.v]))
        ELSE Yield(r.val, [g EXCEPT !.lines = Tail(g.lines)], None))

----------------------------------------------------------------------------
(* LogKinesis.  A Kinesis record has the field data: the text that base64    *)
(* and gzip give back.  The envelopes of the model are those of CloudWatch   *)
(* Logs: 'logEvents', when present, is a list of objects whose 'message',    *)
(* when present, is a text.                                                  *)

(* get_rawdata_dict: json.loads of the first line, or the exception *)
get_rawdata_dict(rec) ==
    Bind(ReadLines(rec.data), LAMBDA lines :
        IF lines = << >> THEN ValueError
        ELSE Bind(LoadsStrict(lines[1]), LAMBDA r : IF r.ok THEN r.val ELSE ValueError))

kLogGroup == <<"l", "o", "g", "G", "r", "o", "u", "p">>
kLogStream == <<"l", "o", "g", "S", "t", "r", "e", "a", "m">>
kLogEvents == <<"l", "o", "g", "E", "v", "e", "n", "t", "s">>
kMessageType == <<"m", "e", "s", "s", "a", "g", "e", "T", "y", "p", "e">>
kOwner == <<"o", "w", "n", "e", "r">>
sControlMessage == <<"C", "O", "N", "T", "R", "O", "L", "_", "M", "E", "S", "S", "A", "G", "E">>
MetaLen == 150

(* x.lower() *)
LowerOf(x) == IF IsError(x) THEN x ELSE IF IsStr(x) THEN PyStr(ToLower(x.v)) ELSE AttributeError

(* rawdata_dict['logEvents'][0]['message'][:150], '' on a KeyError *)
FirstMessage(rd) ==
    Bind(Item(rd, kLogEvents), LAMBDA evs :
        IF evs.t = "KeyError" THEN EmptyStr
        ELSE IF IsError(evs) THEN evs
        ELSE IF evs.v = << >> THEN Raised("IndexError")
        ELSE Bind(Item(evs.v[1], N.kMessage), LAMBDA msg :
            IF msg.t = "KeyError" THEN EmptyStr
            ELSE IF IsError(msg) THEN msg
            ELSE PyStr(Prefix(msg.v, MetaLen))))

RECURSIVE KinesisLogtypeFrom(_, _, _)
KinesisLogtypeFrom(cfg, rd, i) ==
    IF i > Len(cfg) THEN PyStr(N.sUnknown)
    ELSE Bind(LowerOf(Item(rd, kLogGroup)), LAMBDA lg :
        IF IsError(lg) THEN lg
        ELSE IF IsSubstr(cfg[i].loggroup, lg.v) THEN PyStr(cfg[i].name)
        ELSE Bind(LowerOf(FirstMessage(rd)), LAMBDA first :
            IF IsError(first) THEN first
            ELSE IF IsSubstr(cfg[i].loggroup, first.v) THEN PyStr(cfg[i].name)
            ELSE KinesisLogtypeFrom(cfg, rd, i + 1)))

(* the section's name, 'unknown', or the exception *)
LogKinesis_logtype(cfg, rd) == KinesisLogtypeFrom(cfg, rd, 1)

KinesisControlReason == <<"K", "i", "n", "e", "s", "i", "s", "'", "s", " ", "c", "o", "n", "t", "r", "o", "l", "_", "m", "e", "s", "s", "a", "g", "e">>
KinesisUnknownReason == <<"U", "n", "k", "n", "o", "w", "n", " ", "l", "o", "g", " ", "t", "y", "p", "e", " ", "i", "n", " ", "k", "i", "n", "e", "s", "i", "s">>

(* the reason (a text), False (0) or the exception *)
LogKinesis_check_ignore(cfg, rd) ==
    Bind(Item(rd, kMessageType), LAMBDA mt :
        IF IsError(mt) THEN mt
        ELSE IF ~IsStr(mt) THEN TypeError
        ELSE IF IsSubstr(sControlMessage, mt.v) THEN PyStr(KinesisControlReason)
        ELSE Bind(LogKinesis_logtype(cfg, rd), LAMBDA lt :
            IF IsError(lt) THEN lt
            ELSE IF IsSubstr(N.sUnknown, lt.v) THEN PyStr(KinesisUnknownReason)
            ELSE PyInt(0)))

LogKinesis_accountid(rd) == Item(rd, kOwner)

LogKinesis_region(rd) ==
    Bind(LowerOf(Item(rd, kLogGroup)), LAMBDA lg :
    Bind(LowerOf(Item(rd, kLogStream)), LAMBDA ls :
        IF IsError(lg) THEN lg
        ELSE IF IsError(ls) THEN ls
        ELSE ReRegion(lg.v \o <<"_">> \o ls.v)))

(* own is __file_format *)
LogKinesis_file_format(cfg, rd, own) ==
    IF Truthy(own) THEN own
    ELSE Bind(LogKinesis_logtype(cfg, rd), LAMBDA lt :
        IF IsError(lt) THEN lt ELSE ConfigItem(cfg, lt.v, LAMBDA sec : sec.file_format))

(* logdata_list up to its loop *)
KinesisStart(rd) ==
    Bind(Iterate(Item(rd, kLogEvents)), LAMBDA evs :
        IF IsError(evs) THEN evs
        ELSE [t |-> "generator", mode |-> "events", lines |-> evs.v, pending |-> << >>])

cwl_keys == <<<<"s", "o", "u", "r", "c", "e">>, <<"d", "e", "t", "a", "i", "l">>, <<"r", "e", "s", "o", "u", "r", "c", "e", "s">>, <<"a", "c", "c", "o", "u", "n", "t">>, <<"t", "i", "m", "e">>>>
kDetail == <<"d", "e", "t", "a", "i", "l">>

(* k in x, or the TypeError of a value that holds nothing *)
InOrError(x, k) == IF x.t \in {"dict", "str", "list"} THEN PyInt(IF Contains(x, k) THEN 1 ELSE 0)
                   ELSE TypeError

(* all(k in x for k in cwl_keys) *)
RECURSIVE AllCwlKeys(_, _)
AllCwlKeys(x, i) ==
    IF i > Len(cwl_keys) THEN PyInt(1)
    ELSE Bind(InOrError(x, cwl_keys[i]), LAMBDA r :
        IF IsError(r) THEN r ELSE IF r.v = 0 THEN PyInt(0) ELSE AllCwlKeys(x, i + 1))

(* logdata_list from the state g to its next yield, exception or end; own is *)
(* the value __file_format has afterwards (None: left as it was)              *)
RECURSIVE KinesisNext(_, _)
KinesisNext(sec, g) ==
    IF g.pending # << >>
    THEN Yield(Head(g.pending), [g EXCEPT !.pending = Tail(g.pending)], None)
    ELSE IF g.lines = << >> THEN StopIteration
    ELSE
    Bind(Head(g.lines), LAMBDA ev :
    Bind([g EXCEPT !.lines = Tail(g.lines)], LAMBDA g2 :
    Bind(InOrError(ev, N.kExtractedFields), LAMBDA has :
        IF IsError(has) THEN Raise(has)
        ELSE IF has.v = 1 THEN Yield(ev, g2, PyStr(N.sJson))
        ELSE Bind(Item(ev, N.kMessage), LAMBDA msg :
            IF sec.file_format = N.sText
            THEN (IF IsError(msg) THEN Raise(msg) ELSE Yield(msg, g2, None))
            ELSE IF IsError(msg) THEN Raise(msg)
            ELSE IF ~IsStr(msg) THEN Raise(TypeError)
            ELSE Bind(LoadsStrict(msg.v), LAMBDA r :
                IF ~r.ok THEN Raise(ValueError)
                ELSE Bind(AllCwlKeys(r.val, 1), LAMBDA cwl :
                    IF IsError(cwl) THEN Raise(cwl)
                    ELSE IF cwl.v = 0 THEN Yield(r.val, g2, None)
                    ELSE Bind(Item(r.val, kDetail), LAMBDA detail :
                        IF IsError(detail) THEN Raise(detail)
                        ELSE IF sec.json_delimiter # << >>
                        THEN Bind(Iterate(Item(detail, sec.json_delimiter)), LAMBDA items :
                                IF IsError(items) THEN Raise(items)
                                ELSE KinesisNext(sec, [g2 EXCEPT !.pending = items.v]))
                        ELSE Yield(detail, g2, None))))))))

----------------------------------------------------------------------------
(* Batches and the configuration they meet *)

NoFile == [found |-> FALSE, text |-> << >>]

Section(name, s3_key, loggroup, file_format, logcfg) ==
    [ name |-> name, s3_key |-> s3_key, loggroup |-> loggroup, s3_key_ignored |-> << >>,
      file_format |-> file_format, json_delimiter |-> << >>,
      text_header_line_number |-> <<"0">>, logconfig |-> logcfg,
      log_pattern_prog |-> None, sf_module |-> None, ignore_rules |-> None ]

(* the sections in the order of the file; 'fwb' comes after 'fw', whose      *)
(* patterns also occur in the sources of 'fwb'                                *)
Configuration ==
    << [Section(<<"f", "w">>, <<"f", "w", "/">>, <<"/", "f", "w">>, N.sJson, MappedConfig) EXCEPT
            !.s3_key_ignored = <<"s", "k", "i", "p">>,
            !.ignore_rules = PyDict(One(<<"s", "r", "c">>, S(<<"1", "0", ".">>)))],
       Section(<<"f", "w", "b">>, <<"f", "w", "/", "b">>, <<"/", "f", "w", "b">>, N.sJson, StaticConfig),
       [Section(<<"t", "x", "t">>, <<"t", "x", "t", "/">>, <<"/", "t", "x", "t">>, N.sText, TextConfig) EXCEPT
            !.text_header_line_number = <<"1">>,
            !.log_pattern_prog = Pattern(<<<<"i", "d">>, <<"s", "r", "c">>>>),
            !.sf_module = sfKeep],
       Section(<<"c", "s", "v">>, <<"c", "s", "v", "/">>, <<"/", "c", "s", "v">>, N.sCsv, CsvConfig),
       [Section(<<"h", "u", "b">>, <<"h", "u", "b", "/">>, <<"a", "w", "s", ".", "h", "u", "b">>, N.sJson, StreamConfig) EXCEPT
            !.json_delimiter = <<"f", "s">>],
       Section(<<"u", "n", "k", "n", "o", "w", "n", "_", "f", "w">>, <<"u", "n", "/">>, <<"/", "u", "n">>, N.sJson, BaseConfig) >>

S3Mixed ==
    [ kind |-> "s3", s3bucket |-> <<"b">>, s3key |-> <<"f", "w", "/", "1", "2", "3", "4", "5", "6", "7", "8", "9", "0", "1", "2", "/", "e", "u", "-", "w", "e", "s", "t", "-", "1", "/", "a">>,
      head |-> <<123, 34, 105, 100, 34, 58, 32, 34, 55, 34, 44, 32, 34, 115, 114, 99>>,
      text |-> <<"{", "\"", "i", "d", "\"", ":", " ", "\"", "7", "\"", ",", " ", "\"", "s", "r", "c", "\"", ":", " ", "\"", "8", ".", "8", ".", "8", ".", "8", "\"", ",", " ", "\"", "t", "i", "m", "e", "\"", ":", " ", "\"", "2", "0", "2", "4", "-", "0", "1", "-", "0", "1", "T", "0", "0", ":", "0", "0", ":", "0", "0", "\"", "}", "LF", "{", "\"", "i", "d", "\"", ":", " ", "\"", "8", "\"", ",", " ", "\"", "t", "i", "m", "e", "\"", ":", " ", "\"", "x", "\"", "}", "LF", "{", "\"", "i", "d", "\"", ":", " ", "\"", "9", "\"", ",", " ", "\"", "s", "r", "c", "\"", ":", " ", "\"", "1", "0", ".", "1", ".", "1", ".", "1", "\"", ",", " ", "\"", "t", "i", "m", "e", "\"", ":", " ", "\"", "2", "0", "2", "4", "-", "0", "1", "-", "0", "1", "T", "0", "0", ":", "0", "0", ":", "0", "0", "\"", "}", "LF">>,
      localfile |-> NoFile ]

S3Malformed ==
    [ kind |-> "s3", s3bucket |-> <<"b">>, s3key |-> <<"f", "w", "/", "x">>,
      head |-> <<123, 34, 105, 100, 34, 58, 32, 34, 55, 34, 44, 32, 34, 115, 114, 99>>,
      text |-> <<"{", "\"", "i", "d", "\"", ":", " ", "\"", "7", "\"", ",", " ", "\"", "s", "r", "c", "\"", ":", " ", "\"", "8", ".", "8", ".", "8", ".", "8", "\"", ",", " ", "\"", "t", "i", "m", "e", "\"", ":", " ", "\"", "2", "0", "2", "4", "-", "0", "1", "-", "0", "1", "T", "0", "0", ":", "0", "0", ":", "0", "0", "\"", "}", "LF", "{", "\"", "i", "d", "\"", ":", " ", "\"", "7", "\"", ",", " ", "\"", "s", "r", "c", "\"", ":", " ", "\"", "8", ".", "8", ".", "8", ".", "8", "\"", ",", " ", "\"", "t", "i", "m", "e", "\"", ":", " ", "\"", "2", "0", "2", "4", "-", "0", "1", "-", "0", "1", "T", "0", "0", ":", "0", "0", ":", "0", "0", "\"", "LF", "{", "\"", "i", "d", "\"", ":", " ", "\"", "6", "\"", ",", " ", "\"", "s", "r", "c", "\"", ":", " ", "\"", "1", ".", "1", ".", "1", ".", "1", "\"", ",", " ", "\"", "t", "i", "m", "e", "\"", ":", " ", "\"", "2", "0", "2", "4", "-", "0", "1", "-", "0", "1", "T", "0", "0", ":", "0", "0", ":", "0", "0", "\"", "}", "LF">>,
      localfile |-> NoFile ]

S3KeyIgnored ==
    [ kind |-> "s3", s3bucket |-> <<"b">>, s3key |-> <<"f", "w", "/", "s", "k", "i", "p">>,
      head |-> <<123, 34, 105, 100, 34, 58, 32, 34, 55, 34, 44, 32, 34, 115, 114, 99>>,
      text |-> <<"{", "\"", "i", "d", "\"", ":", " ", "\"", "7", "\"", ",", " ", "\"", "s", "r", "c", "\"", ":", " ", "\"", "8", ".", "8", ".", "8", ".", "8", "\"", ",", " ", "\"", "t", "i", "m", "e", "\"", ":", " ", "\"", "2", "0", "2", "4", "-", "0", "1", "-", "0", "1", "T", "0", "0", ":", "0", "0", ":", "0", "0", "\"", "}", "LF">>,
      localfile |-> NoFile ]

S3NoType ==
    [ kind |-> "s3", s3bucket |-> <<"b">>, s3key |-> <<"z", "z", "/", "x">>,
      head |-> <<123, 34, 105, 100, 34, 58, 32, 34, 55, 34, 44, 32, 34, 115, 114, 99>>,
      text |-> <<"{", "\"", "i", "d", "\"", ":", " ", "\"", "7", "\"", ",", " ", "\"", "s", "r", "c", "\"", ":", " ", "\"", "8", ".", "8", ".", "8", ".", "8", "\"", ",", " ", "\"", "t", "i", "m", "e", "\"", ":", " ", "\"", "2", "0", "2", "4", "-", "0", "1", "-", "0", "1", "T", "0", "0", ":", "0", "0", ":", "0", "0", "\"", "}", "LF">>,
      localfile |-> NoFile ]

S3Text ==
    [ kind |-> "s3", s3bucket |-> <<"b">>, s3key |-> <<"t", "x", "t", "/", "u", "s", "-", "e", "a", "s", "t", "-", "1", "/", "x">>,
      head |-> <<105, 100, 32, 115, 114, 99, 10, 55, 32, 56, 46, 56, 46, 56, 46, 56>>,
      text |-> <<"i", "d", " ", "s", "r", "c", "LF", "7", " ", "8", ".", "8", ".", "8", ".", "8", "LF", "7", "LF", "9", " ", "1", ".", "1", ".", "1", ".", "1", "LF">>,
      localfile |-> NoFile ]

S3Csv ==
    [ kind |-> "s3", s3bucket |-> <<"b">>, s3key |-> <<"c", "s", "v", "/", "x">>,
      head |-> <<105, 100, 32, 115, 114, 99, 45, 105, 112, 10, 55, 32, 56, 46, 56, 46>>,
      text |-> <<"i", "d", " ", "s", "r", "c", "-", "i", "p", "LF", "7", " ", "8", ".", "8", ".", "8", ".", "8", "LF", "-", " ", "1", ".", "1", ".", "1", ".", "1", "LF">>,
      localfile |-> NoFile ]

S3Delimited ==
    [ kind |-> "s3", s3bucket |-> <<"b">>, s3key |-> <<"h", "u", "b", "/", "x">>,
      head |-> <<123, 34, 102, 115, 34, 58, 32, 91, 123, 34, 105, 100, 34, 58, 32, 34>>,
      text |-> <<"{", "\"", "f", "s", "\"", ":", " ", "[", "{", "\"", "i", "d", "\"", ":", " ", "\"", "1", "\"", ",", " ", "\"", "t", "i", "m", "e", "\"", ":", " ", "\"", "2", "0", "2", "4", "-", "0", "1", "-", "0", "1", "T", "0", "0", ":", "0", "0", ":", "0", "0", "\"", "}", ",", " ", "{", "\"", "i", "d", "\"", ":", " ", "\"", "2", "\"", ",", " ", "\"", "t", "i", "m", "e", "\"", ":", " ", "\"", "2", "0", "2", "4", "-", "0", "1", "-", "0", "1", "T", "0", "0", ":", "0", "0", ":", "0", "0", "\"", "}", "]", "}", "LF", "{", "\"", "f", "s", "\"", ":", " ", "[", "]", "}", "LF", "{", "\"", "f", "s", "\"", ":", " ", "[", "{", "\"", "i", "d", "\"", ":", " ", "\"", "3", "\"", ",", " ", "\"", "t", "i", "m", "e", "\"", ":", " ", "\"", "2", "0", "2", "4", "-", "0", "1", "-", "0", "1", "T", "0", "0", ":", "0", "0", ":", "0", "0", "\"", "}", "]", "}", "LF">>,
      localfile |-> NoFile ]

S3NamedUnknown ==
    [ kind |-> "s3", s3bucket |-> <<"b">>, s3key |-> <<"u", "n", "/", "x">>,
      head |-> <<123, 34, 105, 100, 34, 58, 32, 34, 55, 34, 44, 32, 34, 115, 114, 99>>,
      text |-> <<"{", "\"", "i", "d", "\"", ":", " ", "\"", "7", "\"", ",", " ", "\"", "s", "r", "c", "\"", ":", " ", "\"", "8", ".", "8", ".", "8", ".", "8", "\"", ",", " ", "\"", "t", "i", "m", "e", "\"", ":", " ", "\"", "2", "0", "2", "4", "-", "0", "1", "-", "0", "1", "T", "0", "0", ":", "0", "0", ":", "0", "0", "\"", "}", "LF">>,
      localfile |-> NoFile ]

S3Gzip ==
    [ kind |-> "s3", s3bucket |-> <<"b">>, s3key |-> <<"f", "w", "/", "b", "/", "x">>,
      head |-> <<31, 139, 8, 0>>,
      text |-> <<"{", "\"", "i", "d", "\"", ":", " ", "\"", "7", "\"", ",", " ", "\"", "s", "r", "c", "\"", ":", " ", "\"", "8", ".", "8", ".", "8", ".", "8", "\"", ",", " ", "\"", "t", "i", "m", "e", "\"", ":", " ", "\"", "2", "0", "2", "4", "-", "0", "1", "-", "0", "1", "T", "0", "0", ":", "0", "0", ":", "0", "0", "\"", "}", "LF">>,
      localfile |-> NoFile ]

S3Binary ==
    [ kind |-> "s3", s3bucket |-> <<"b">>, s3key |-> <<"f", "w", "/", "b", "i", "n">>,
      head |-> <<0, 1, 2>>,
      text |-> <<>>,
      localfile |-> NoFile ]

S3Zip ==
    [ kind |-> "s3", s3bucket |-> <<"b">>, s3key |-> <<"f", "w", "/", "z", "i", "p">>,
      head |-> <<80, 75, 3, 4>>,
      text |-> <<>>,
      localfile |-> NoFile ]

S3ZipLocal ==
    [ kind |-> "s3", s3bucket |-> <<"b">>, s3key |-> <<"f", "w", "/", "z", "i", "p">>,
      head |-> <<80, 75, 3, 4>>,
      text |-> <<>>,
      localfile |-> [found |-> TRUE, text |-> <<"{", "\"", "i", "d", "\"", ":", " ", "\"", "6", "\"", ",", " ", "\"", "s", "r", "c", "\"", ":", " ", "\"", "1", ".", "1", ".", "1", ".", "1", "\"", ",", " ", "\"", "t", "i", "m", "e", "\"", ":", " ", "\"", "2", "0", "2", "4", "-", "0", "1", "-", "0", "1", "T", "0", "0", ":", "0", "0", ":", "0", "0", "\"", "}", "LF">>] ]

S3Records ==
    { S3Mixed,
      S3Malformed,
      S3KeyIgnored,
      S3NoType,
      S3Text,
      S3Csv,
      S3Delimited,
      S3NamedUnknown,
      S3Gzip,
      S3Binary,
      S3Zip,
      S3ZipLocal }

KinMalformed ==
    [ kind |-> "kinesis",
      data |-> <<"{", "\"", "m", "e", "s", "s", "a", "g", "e", "T", "y", "p", "e", "\"", ":", " ", "\"", "D", "A", "T", "A", "_", "M", "E", "S", "S", "A", "G", "E", "\"", ",", " ", "\"", "o", "w", "n", "e", "r", "\"", ":", " ", "\"", "1", "1", "1", "1", "2", "2", "2", "2", "3", "3", "3", "3", "\"", ",", " ", "\"", "l", "o", "g", "G", "r", "o", "u", "p", "\"", ":", " ", "\"", "/", "a", "w", "s", "/", "F", "W", "/", "x", "\"", ",", " ", "\"", "l", "o", "g", "S", "t", "r", "e", "a", "m", "\"", ":", " ", "\"", "u", "s", "-", "e", "a", "s", "t", "-", "1", "_", "s", "\"", ",", " ", "\"", "l", "o", "g", "E", "v", "e", "n", "t", "s", "\"", ":", " ", "[", "{", "\"", "i", "d", "\"", ":", " ", "\"", "1", "\"", ",", " ", "\"", "t", "i", "m", "e", "s", "t", "a", "m", "p", "\"", ":", " ", "1", ",", " ", "\"", "m", "e", "s", "s", "a", "g", "e", "\"", ":", " ", "\"", "{", "\\", "\"", "i", "d", "\\", "\"", ":", " ", "\\", "\"", "7", "\\", "\"", ",", " ", "\\", "\"", "s", "r", "c", "\\", "\"", ":", " ", "\\", "\"", "8", ".", "8", ".", "8", ".", "8", "\\", "\"", ",", " ", "\\", "\"", "t", "i", "m", "e", "\\", "\"", ":", " ", "\\", "\"", "2", "0", "2", "4", "-", "0", "1", "-", "0", "1", "T", "0", "0", ":", "0", "0", ":", "0", "0", "\\", "\"", "}", "\"", "}", ",", " ", "{", "\"", "i", "d", "\"", ":", " ", "\"", "1", "\"", ",", " ", "\"", "t", "i", "m", "e", "s", "t", "a", "m", "p", "\"", ":", " ", "1", ",", " ", "\"", "m", "e", "s", "s", "a", "g", "e", "\"", ":", " ", "\"", "n", "o", "t", "j", "s", "o", "n", "\"", "}", ",", " ", "{", "\"", "i", "d", "\"", ":", " ", "\"", "1", "\"", ",", " ", "\"", "t", "i", "m", "e", "s", "t", "a", "m", "p", "\"", ":", " ", "1", ",", " ", "\"", "m", "e", "s", "s", "a", "g", "e", "\"", ":", " ", "\"", "{", "\\", "\"", "i", "d", "\\", "\"", ":", " ", "\\", "\"", "6", "\\", "\"", ",", " ", "\\", "\"", "s", "r", "c", "\\", "\"", ":", " ", "\\", "\"", "1", ".", "1", ".", "1", ".", "1", "\\", "\"", ",", " ", "\\", "\"", "t", "i", "m", "e", "\\", "\"", ":", " ", "\\", "\"", "2", "0", "2", "4", "-", "0", "1", "-", "0", "1", "T", "0", "0", ":", "0", "0", ":", "0", "0", "\\", "\"", "}", "\"", "}", "]", "}", "LF">> ]

KinControl ==
    [ kind |-> "kinesis",
      data |-> <<"{", "\"", "m", "e", "s", "s", "a", "g", "e", "T", "y", "p", "e", "\"", ":", " ", "\"", "C", "O", "N", "T", "R", "O", "L", "_", "M", "E", "S", "S", "A", "G", "E", "\"", ",", " ", "\"", "o", "w", "n", "e", "r", "\"", ":", " ", "\"", "1", "1", "1", "1", "2", "2", "2", "2", "3", "3", "3", "3", "\"", ",", " ", "\"", "l", "o", "g", "G", "r", "o", "u", "p", "\"", ":", " ", "\"", "z", "z", "\"", ",", " ", "\"", "l", "o", "g", "S", "t", "r", "e", "a", "m", "\"", ":", " ", "\"", "s", "\"", ",", " ", "\"", "l", "o", "g", "E", "v", "e", "n", "t", "s", "\"", ":", " ", "[", "{", "\"", "i", "d", "\"", ":", " ", "\"", "1", "\"", ",", " ", "\"", "t", "i", "m", "e", "s", "t", "a", "m", "p", "\"", ":", " ", "1", ",", " ", "\"", "m", "e", "s", "s", "a", "g", "e", "\"", ":", " ", "\"", "C", "W", "L", " ", "C", "O", "N", "T", "R", "O", "L", " ", "M", "E", "S", "S", "A", "G", "E", "\"", "}", "]", "}", "LF">> ]

KinEvent ==
    [ kind |-> "kinesis",
      data |-> <<"{", "\"", "m", "e", "s", "s", "a", "g", "e", "T", "y", "p", "e", "\"", ":", " ", "\"", "D", "A", "T", "A", "_", "M", "E", "S", "S", "A", "G", "E", "\"", ",", " ", "\"", "o", "w", "n", "e", "r", "\"", ":", " ", "\"", "1", "1", "1", "1", "2", "2", "2", "2", "3", "3", "3", "3", "\"", ",", " ", "\"", "l", "o", "g", "G", "r", "o", "u", "p", "\"", ":", " ", "\"", "z", "z", "\"", ",", " ", "\"", "l", "o", "g", "S", "t", "r", "e", "a", "m", "\"", ":", " ", "\"", "s", "\"", ",", " ", "\"", "l", "o", "g", "E", "v", "e", "n", "t", "s", "\"", ":", " ", "[", "{", "\"", "i", "d", "\"", ":", " ", "\"", "1", "\"", ",", " ", "\"", "t", "i", "m", "e", "s", "t", "a", "m", "p", "\"", ":", " ", "1", ",", " ", "\"", "m", "e", "s", "s", "a", "g", "e", "\"", ":", " ", "\"", "{", "\\", "\"", "s", "o", "u", "r", "c", "e", "\\", "\"", ":", " ", "\\", "\"", "A", "W", "S", ".", "h", "u", "b", "\\", "\"", ",", " ", "\\", "\"", "d", "e", "t", "a", "i", "l", "\\", "\"", ":", " ", "{", "\\", "\"", "f", "s", "\\", "\"", ":", " ", "[", "{", "\\", "\"", "i", "d", "\\", "\"", ":", " ", "\\", "\"", "1", "\\", "\"", ",", " ", "\\", "\"", "t", "i", "m", "e", "\\", "\"", ":", " ", "\\", "\"", "2", "0", "2", "4", "-", "0", "1", "-", "0", "1", "T", "0", "0", ":", "0", "0", ":", "0", "0", "\\", "\"", "}", ",", " ", "{", "\\", "\"", "i", "d", "\\", "\"", ":", " ", "\\", "\"", "2", "\\", "\"", ",", " ", "\\", "\"", "t", "i", "m", "e", "\\", "\"", ":", " ", "\\", "\"", "2", "0", "2", "4", "-", "0", "1", "-", "0", "1", "T", "0", "0", ":", "0", "0", ":", "0", "0", "\\", "\"", "}", "]", "}", ",", " ", "\\", "\"", "r", "e", "s", "o", "u", "r", "c", "e", "s", "\\", "\"", ":", " ", "[", "]", ",", " ", "\\", "\"", "a", "c", "c", "o", "u", "n", "t", "\\", "\"", ":", " ", "\\", "\"", "1", "\\", "\"", ",", " ", "\\", "\"", "t", "i", "m", "e", "\\", "\"", ":", " ", "\\", "\"", "2", "0", "2", "4", "-", "0", "1", "-", "0", "1", "T", "0", "0", ":", "0", "0", ":", "0", "0", "\\", "\"", "}", "\"", "}", "]", "}", "LF">> ]

KinNoType ==
    [ kind |-> "kinesis",
      data |-> <<"{", "\"", "m", "e", "s", "s", "a", "g", "e", "T", "y", "p", "e", "\"", ":", " ", "\"", "D", "A", "T", "A", "_", "M", "E", "S", "S", "A", "G", "E", "\"", ",", " ", "\"", "o", "w", "n", "e", "r", "\"", ":", " ", "\"", "1", "1", "1", "1", "2", "2", "2", "2", "3", "3", "3", "3", "\"", ",", " ", "\"", "l", "o", "g", "G", "r", "o", "u", "p", "\"", ":", " ", "\"", "z", "z", "\"", ",", " ", "\"", "l", "o", "g", "S", "t", "r", "e", "a", "m", "\"", ":", " ", "\"", "s", "\"", ",", " ", "\"", "l", "o", "g", "E", "v", "e", "n", "t", "s", "\"", ":", " ", "[", "{", "\"", "i", "d", "\"", ":", " ", "\"", "1", "\"", ",", " ", "\"", "t", "i", "m", "e", "s", "t", "a", "m", "p", "\"", ":", " ", "1", ",", " ", "\"", "m", "e", "s", "s", "a", "g", "e", "\"", ":", " ", "\"", "h", "e", "l", "l", "o", "\"", "}", "]", "}", "LF">> ]

KinText ==
    [ kind |-> "kinesis",
      data |-> <<"{", "\"", "m", "e", "s", "s", "a", "g", "e", "T", "y", "p", "e", "\"", ":", " ", "\"", "D", "A", "T", "A", "_", "M", "E", "S", "S", "A", "G", "E", "\"", ",", " ", "\"", "o", "w", "n", "e", "r", "\"", ":", " ", "\"", "1", "1", "1", "1", "2", "2", "2", "2", "3", "3", "3", "3", "\"", ",", " ", "\"", "l", "o", "g", "G", "r", "o", "u", "p", "\"", ":", " ", "\"", "/", "t", "x", "t", "\"", ",", " ", "\"", "l", "o", "g", "S", "t", "r", "e", "a", "m", "\"", ":", " ", "\"", "s", "\"", ",", " ", "\"", "l", "o", "g", "E", "v", "e", "n", "t", "s", "\"", ":", " ", "[", "{", "\"", "i", "d", "\"", ":", " ", "\"", "1", "\"", ",", " ", "\"", "t", "i", "m", "e", "s", "t", "a", "m", "p", "\"", ":", " ", "1", ",", " ", "\"", "m", "e", "s", "s", "a", "g", "e", "\"", ":", " ", "\"", "7", " ", "8", ".", "8", ".", "8", ".", "8", "\"", "}", ",", " ", "{", "\"", "i", "d", "\"", ":", " ", "\"", "1", "\"", ",", " ", "\"", "t", "i", "m", "e", "s", "t", "a", "m", "p", "\"", ":", " ", "1", ",", " ", "\"", "m", "e", "s", "s", "a", "g", "e", "\"", ":", " ", "\"", "7", "\"", "}", ",", " ", "{", "\"", "i", "d", "\"", ":", " ", "\"", "1", "\"", ",", " ", "\"", "t", "i", "m", "e", "s", "t", "a", "m", "p", "\"", ":", " ", "1", ",", " ", "\"", "m", "e", "s", "s", "a", "g", "e", "\"", ":", " ", "\"", "9", " ", "1", ".", "1", ".", "1", ".", "1", "\"", "}", "]", "}", "LF">> ]

KinExtracted ==
    [ kind |-> "kinesis",
      data |-> <<"{", "\"", "m", "e", "s", "s", "a", "g", "e", "T", "y", "p", "e", "\"", ":", " ", "\"", "D", "A", "T", "A", "_", "M", "E", "S", "S", "A", "G", "E", "\"", ",", " ", "\"", "o", "w", "n", "e", "r", "\"", ":", " ", "\"", "1", "1", "1", "1", "2", "2", "2", "2", "3", "3", "3", "3", "\"", ",", " ", "\"", "l", "o", "g", "G", "r", "o", "u", "p", "\"", ":", " ", "\"", "/", "f", "w", "\"", ",", " ", "\"", "l", "o", "g", "S", "t", "r", "e", "a", "m", "\"", ":", " ", "\"", "a", "p", "-", "n", "o", "r", "t", "h", "e", "a", "s", "t", "-", "1", "\"", ",", " ", "\"", "l", "o", "g", "E", "v", "e", "n", "t", "s", "\"", ":", " ", "[", "{", "\"", "i", "d", "\"", ":", " ", "\"", "1", "\"", ",", " ", "\"", "t", "i", "m", "e", "s", "t", "a", "m", "p", "\"", ":", " ", "1", ",", " ", "\"", "m", "e", "s", "s", "a", "g", "e", "\"", ":", " ", "\"", "m", "\"", ",", " ", "\"", "e", "x", "t", "r", "a", "c", "t", "e", "d", "F", "i", "e", "l", "d", "s", "\"", ":", " ", "{", "\"", "i", "d", "\"", ":", " ", "\"", "7", "\"", ",", " ", "\"", "t", "i", "m", "e", "\"", ":", " ", "\"", "2", "0", "2", "4", "-", "0", "1", "-", "0", "1", "T", "0", "0", ":", "0", "0", ":", "0", "0", "\"", "}", "}", ",", " ", "{", "\"", "i", "d", "\"", ":", " ", "\"", "1", "\"", ",", " ", "\"", "t", "i", "m", "e", "s", "t", "a", "m", "p", "\"", ":", " ", "1", ",", " ", "\"", "m", "e", "s", "s", "a", "g", "e", "\"", ":", " ", "\"", "{", "\\", "\"", "i", "d", "\\", "\"", ":", " ", "\\", "\"", "9", "\\", "\"", ",", " ", "\\", "\"", "s", "r", "c", "\\", "\"", ":", " ", "\\", "\"", "1", "0", ".", "1", ".", "1", ".", "1", "\\", "\"", ",", " ", "\\", "\"", "t", "i", "m", "e", "\\", "\"", ":", " ", "\\", "\"", "2", "0", "2", "4", "-", "0", "1", "-", "0", "1", "T", "0", "0", ":", "0", "0", ":", "0", "0", "\\", "\"", "}", "\"", "}", ",", " ", "{", "\"", "i", "d", "\"", ":", " ", "\"", "1", "\"", ",", " ", "\"", "t", "i", "m", "e", "s", "t", "a", "m", "p", "\"", ":", " ", "1", ",", " ", "\"", "m", "e", "s", "s", "a", "g", "e", "\"", ":", " ", "\"", "{", "\\", "\"", "i", "d", "\\", "\"", ":", " ", "\\", "\"", "7", "\\", "\"", ",", " ", "\\", "\"", "s", "r", "c", "\\", "\"", ":", " ", "\\", "\"", "8", ".", "8", ".", "8", ".", "8", "\\", "\"", ",", " ", "\\", "\"", "t", "i", "m", "e", "\\", "\"", ":", " ", "\\", "\"", "2", "0", "2", "4", "-", "0", "1", "-", "0", "1", "T", "0", "0", ":", "0", "0", ":", "0", "0", "\\", "\"", "}", "\"", "}", "]", "}", "LF">> ]

KinNamedUnknown ==
    [ kind |-> "kinesis",
      data |-> <<"{", "\"", "m", "e", "s", "s", "a", "g", "e", "T", "y", "p", "e", "\"", ":", " ", "\"", "D", "A", "T", "A", "_", "M", "E", "S", "S", "A", "G", "E", "\"", ",", " ", "\"", "o", "w", "n", "e", "r", "\"", ":", " ", "\"", "1", "1", "1", "1", "2", "2", "2", "2", "3", "3", "3", "3", "\"", ",", " ", "\"", "l", "o", "g", "G", "r", "o", "u", "p", "\"", ":", " ", "\"", "/", "U", "N", "/", "x", "\"", ",", " ", "\"", "l", "o", "g", "S", "t", "r", "e", "a", "m", "\"", ":", " ", "\"", "s", "\"", ",", " ", "\"", "l", "o", "g", "E", "v", "e", "n", "t", "s", "\"", ":", " ", "[", "{", "\"", "i", "d", "\"", ":", " ", "\"", "1", "\"", ",", " ", "\"", "t", "i", "m", "e", "s", "t", "a", "m", "p", "\"", ":", " ", "1", ",", " ", "\"", "m", "e", "s", "s", "a", "g", "e", "\"", ":", " ", "\"", "{", "\\", "\"", "i", "d", "\\", "\"", ":", " ", "\\", "\"", "7", "\\", "\"", ",", " ", "\\", "\"", "s", "r", "c", "\\", "\"", ":", " ", "\\", "\"", "8", ".", "8", ".", "8", ".", "8", "\\", "\"", ",", " ", "\\", "\"", "t", "i", "m", "e", "\\", "\"", ":", " ", "\\", "\"", "2", "0", "2", "4", "-", "0", "1", "-", "0", "1", "T", "0", "0", ":", "0", "0", ":", "0", "0", "\\", "\"", "}", "\"", "}", "]", "}", "LF">> ]

KinBroken ==
    [ kind |-> "kinesis",
      data |-> <<"n", "o", "t", " ", "j", "s", "o", "n", "LF">> ]

(* a group of a log type in csv: an event with extractedFields, then an     *)
(* event without                                                              *)
KinSticky ==
    [ kind |-> "kinesis",
      data |-> <<"{", "\"", "m", "e", "s", "s", "a", "g", "e", "T", "y", "p", "e", "\"", ":", " ", "\"", "D", "A", "T", "A", "_", "M", "E", "S", "S", "A", "G", "E", "\"", ",", " ", "\"", "o", "w", "n", "e", "r", "\"", ":", " ", "\"", "1", "1", "1", "1", "2", "2", "2", "2", "3", "3", "3", "3", "\"", ",", " ", "\"", "l", "o", "g", "G", "r", "o", "u", "p", "\"", ":", " ", "\"", "/", "c", "s", "v", "\"", ",", " ", "\"", "l", "o", "g", "S", "t", "r", "e", "a", "m", "\"", ":", " ", "\"", "s", "\"", ",", " ", "\"", "l", "o", "g", "E", "v", "e", "n", "t", "s", "\"", ":", " ", "[", "{", "\"", "i", "d", "\"", ":", " ", "\"", "1", "\"", ",", " ", "\"", "t", "i", "m", "e", "s", "t", "a", "m", "p", "\"", ":", " ", "1", ",", " ", "\"", "m", "e", "s", "s", "a", "g", "e", "\"", ":", " ", "\"", "m", "\"", ",", " ", "\"", "e", "x", "t", "r", "a", "c", "t", "e", "d", "F", "i", "e", "l", "d", "s", "\"", ":", " ", "{", "\"", "i", "d", "\"", ":", " ", "\"", "7", "\"", ",", " ", "\"", "s", "r", "c", "_", "i", "p", "\"", ":", " ", "\"", "8", ".", "8", ".", "8", ".", "8", "\"", "}", "}", ",", " ", "{", "\"", "i", "d", "\"", ":", " ", "\"", "1", "\"", ",", " ", "\"", "t", "i", "m", "e", "s", "t", "a", "m", "p", "\"", ":", " ", "1", ",", " ", "\"", "m", "e", "s", "s", "a", "g", "e", "\"", ":", " ", "\"", "{", "\\", "\"", "i", "d", "\\", "\"", ":", " ", "\\", "\"", "9", "\\", "\"", ",", " ", "\\", "\"", "s", "r", "c", "_", "i", "p", "\\", "\"", ":", " ", "\\", "\"", "1", ".", "1", ".", "1", ".", "1", "\\", "\"", "}", "\"", "}", "]", "}", "LF">> ]

KinesisRecords ==
    { KinMalformed,
      KinControl,
      KinEvent,
      KinNoType,
      KinText,
      KinExtracted,
      KinNamedUnknown,
      KinSticky,
      KinBroken }

BatchNow == UtcDatetime(2024, 1, 1, 12, 0, 0)

----------------------------------------------------------------------------
(* One batch: the adapter is built, the caller skips an ignored batch or     *)
(* takes the entries of logdata_list one by one, runs the parser on each and *)
(* collects the outcome.                                                      *)

(* LogS3(record, config, s3): __init__ runs check_ignore *)
NewLogS3 ==
    /\ adapterPc = "idle"
    /\ \E rec \in S3Records :
        /\ record' = rec
        /\ \E r \in {LogS3_check_ignore(config, rec)} :
            /\ ignore' = r
            /\ adapterPc' = IF IsError(r) THEN "raised" ELSE "constructed"
    /\ UNCHANGED <<config, rawdata_dict, own_file_format, gen, outcomes, pathVars, parserVars>>

(* LogKinesis(record, config): __init__ decodes the record, reads the group  *)
(* and the stream and runs check_ignore; ignore holds the exception when the *)
(* constructor raised                                                         *)
KinesisInit(cfg, rec) ==
    Bind(get_rawdata_dict(rec), LAMBDA rd :
        IF IsError(rd) THEN [rd |-> None, ignore |-> rd]
        ELSE IF IsError(Item(rd, kLogGroup)) THEN [rd |-> rd, ignore |-> Item(rd, kLogGroup)]
        ELSE IF IsError(Item(rd, kLogStream)) THEN [rd |-> rd, ignore |-> Item(rd, kLogStream)]
        ELSE [rd |-> rd, ignore |-> LogKinesis_check_ignore(cfg, rd)])

NewLogKinesis ==
    /\ adapterPc = "idle"
    /\ \E rec \in KinesisRecords :
        /\ record' = rec
        /\ \E r \in {KinesisInit(config, rec)} :
            /\ rawdata_dict' = r.rd
            /\ ignore' = r.ignore
            /\ adapterPc' = IF IsError(r.ignore) THEN "raised" ELSE "constructed"
    /\ UNCHANGED <<config, own_file_format, gen, outcomes, pathVars, parserVars>>

IsS3 == record.kind = "s3"

(* logfile.logtype of the adapter in hand *)
Logtype ==
    IF IsS3 THEN LogS3_logtype(config, record) ELSE LogKinesis_logtype(config, rawdata_dict).v

(* the generator of logdata_list before its first step *)
Start == IF IsS3 THEN S3Start(config, record) ELSE KinesisStart(rawdata_dict)

Step(g) ==
    IF IsS3 THEN S3Next(SectionOf(config, Logtype), g)
    ELSE KinesisNext(SectionOf(config, Logtype), g)

(* next(logdata_list): the generator runs to its next yield, to an exception *)
(* (kept in gen.error) or to its end                                          *)
NextLogdata ==
    /\ adapterPc \in {"constructed", "iterating"}
    /\ ~Truthy(ignore)
    /\ parserPc = "idle"
    /\ \E g0 \in {IF gen = None THEN Start ELSE gen} :
       \E r \in {IF IsError(g0) THEN Raise(g0) ELSE Step(g0)} :
        /\ gen' = IF r.kind = "raise" THEN [t |-> "generator", mode |-> "raised",
                                            lines |-> << >>, pending |-> <<r.value>>]
                  ELSE r.gen
        /\ adapterPc' = CASE r.kind = "yield" -> "iterating"
                          [] r.kind = "raise" -> "aborted"
                          [] OTHER -> "done"
        /\ own_file_format' = IF r.own = None THEN own_file_format ELSE r.own
        /\ logdata' = IF r.kind = "yield" THEN r.value ELSE logdata
        /\ parserPc' = IF r.kind = "yield" THEN "yielded" ELSE parserPc
    /\ UNCHANGED <<record, config, rawdata_dict, ignore, outcomes, pathVars, meta, logconfig,
                   logdata_dict, utcnow, timestamp, event_ingested, output>>

Outcome(kind, val) == [t |-> kind, v |-> val]

(* the caller: an ignored batch gives one Ignored outcome and no entry *)
SkipBatch ==
    /\ adapterPc = "constructed"
    /\ Truthy(ignore)
    /\ outcomes' = <<Outcome("Ignored", ignore)>>
    /\ adapterPc' = "done"
    /\ UNCHANGED <<record, config, rawdata_dict, ignore, own_file_format, gen, pathVars,
                   parserVars>>

(* the caller: an exception of the adapter ends the batch *)
AbortBatch ==
    /\ adapterPc \in {"raised", "aborted"}
    /\ outcomes' = Append(outcomes,
                          Outcome("Failed", IF adapterPc = "raised" THEN ignore
                                            ELSE gen.pending[1]))
    /\ adapterPc' = "done"
    /\ UNCHANGED <<record, config, rawdata_dict, ignore, own_file_format, gen, pathVars,
                   parserVars>>

(* the arguments of LogParser taken from the adapter, or the exception *)
MetaOf(sec) ==
    [ msgformat |-> IF IsS3 THEN N.sS3 ELSE N.sKinesis,
      logformat |-> IF IsS3 THEN LogS3_file_format(config, record)
                    ELSE LogKinesis_file_format(config, rawdata_dict, own_file_format),
      logtype |-> sec.name,
      header |-> IF IsS3 THEN LogS3_header(config, record) ELSE None,
      s3bucket |-> IF IsS3 THEN PyStr(record.s3bucket) ELSE None,
      s3key |-> IF IsS3 THEN PyStr(record.s3key) ELSE None,
      loggroup |-> IF IsS3 THEN None ELSE Item(rawdata_dict, kLogGroup),
      logstream |-> IF IsS3 THEN None ELSE Item(rawdata_dict, kLogStream),
      accountid |-> IF IsS3 THEN LogS3_accountid(record) ELSE LogKinesis_accountid(rawdata_dict),
      region |-> IF IsS3 THEN LogS3_region(record) ELSE LogKinesis_region(rawdata_dict),
      log_pattern_prog |-> sec.log_pattern_prog,
      sf_module |-> sec.sf_module,
      ignore_rules |-> sec.ignore_rules,
      reader_city |-> TRUE ]

(* the first exception met while the arguments are read, None without one *)
MetaError(m) ==
    IF IsError(m.logformat) THEN m.logformat
    ELSE IF IsError(m.header) THEN m.header
    ELSE IF IsError(m.accountid) THEN m.accountid
    ELSE IF IsError(m.region) THEN m.region
    ELSE None

(* the caller: LogParser(logdata, logfile.logtype, config[logtype], ...) *)
NewLogParser ==
    /\ parserPc = "yielded"
    /\ \E sec \in {SectionOf(config, Logtype)} :
       \E m \in {MetaOf(sec)} :
        IF IsError(MetaError(m))
        THEN /\ Fail(MetaError(m))
             /\ UNCHANGED <<meta, logconfig>>
        ELSE /\ meta' = [m EXCEPT !.logformat = m.logformat.v]
             /\ logconfig' = sec.logconfig
             /\ parserPc' = "new"
             /\ UNCHANGED output
    /\ logdata_dict' = EmptyMap
    /\ UNCHANGED <<logdata, utcnow, timestamp, event_ingested, pathVars, adapterVars>>

SetLogconfig(cfg, name, logcfg) ==
    [i \in 1..Len(cfg) |-> IF cfg[i].name = name THEN [cfg[i] EXCEPT !.logconfig = logcfg]
                           ELSE cfg[i]]

(* the caller: one Outcome for the entry; the parser worked on the log       *)
(* type's own configuration object                                            *)
Collect ==
    /\ adapterPc = "iterating"
    /\ parserPc \in {"accepted", "ignored", "failed"}
    /\ outcomes' = Append(outcomes,
                          Outcome(CASE parserPc = "accepted" -> "Accepted"
                                    [] parserPc = "ignored" -> "Ignored"
                                    [] OTHER -> "Failed", output))
    /\ config' = IF logconfig = None THEN config ELSE SetLogconfig(config, Logtype, logconfig)
    /\ parserPc' = "idle"
    /\ logdata' = None
    /\ meta' = None
    /\ logconfig' = None
    /\ logdata_dict' = None
    /\ timestamp' = None
    /\ event_ingested' = None
    /\ output' = None
    /\ UNCHANGED <<adapterPc, record, rawdata_dict, ignore, own_file_format, gen, utcnow,
                   pathVars>>

InitBatch ==
    /\ adapterPc = "idle"
    /\ record = None
    /\ config = Configuration
    /\ rawdata_dict = None
    /\ ignore = None
    /\ own_file_format = None
    /\ gen = None
    /\ outcomes = << >>
    /\ parserPc = "idle"
    /\ logdata = None
    /\ meta = None
    /\ logconfig = None
    /\ logdata_dict = None
    /\ utcnow = BatchNow
    /\ timestamp = None
    /\ event_ingested = None
    /\ output = None
    /\ PathIdle

NextBatch ==
    \/ NewLogS3
    \/ NewLogKinesis
    \/ SkipBatch
    \/ NextLogdata
    \/ AbortBatch
    \/ NewLogParser
    \/ Construct
    \/ AddBasicField
    \/ CheckIgnoredLog
    \/ CleanMultiTypeField
    \/ TransformToEcs
    \/ TransformByScript
    \/ Enrich
    \/ IndexName
    \/ IndexId
    \/ Json
    \/ Collect

SpecBatch == InitBatch /\ [][NextBatch]_vars

----------------------------------------------------------------------------
(* Properties of a batch *)

(* the adapter was built without an exception *)
Built == adapterPc # "idle" /\ ~IsError(ignore)

(* the units the batch is split into: the lines left after the header lines, *)
(* or the log events                                                          *)
Units == IF IsError(Start) THEN << >> ELSE Start.lines

(* every unit of the batch is one entry: the log type has no delimiter key *)
OneEntryPerUnit ==
    /\ HasSection(config, Logtype)
    /\ SectionOf(config, Logtype).json_delimiter = << >>
    /\ ~IsError(Start)

(* C3: when a batch that is not ignored has been worked off, the caller holds *)
(* exactly one Outcome for each entry of the batch, whichever entries failed  *)
C3_OneOutcomePerEntry ==
    (Built /\ adapterPc = "done" /\ ~Truthy(ignore) /\ OneEntryPerUnit)
        => Len(outcomes) = Len(Units)

(* the section's pattern occurs in the source identifier of the batch, as    *)
(* logtype tests it                                                           *)
SourceMatches(sec) ==
    IF IsS3 THEN ReSearch(sec.s3_key, record.s3key)
    ELSE \/ IsSubstr(sec.loggroup, LowerOf(Item(rawdata_dict, kLogGroup)).v)
         \/ IsSubstr(sec.loggroup, LowerOf(FirstMessage(rawdata_dict)).v)

Matched == \E i \in 1..Len(config) : SourceMatches(config[i])

FirstMatch == config[CHOOSE i \in 1..Len(config) :
                        SourceMatches(config[i]) /\ \A j \in 1..(i - 1) : ~SourceMatches(config[j])]

IgnoreRuleMatches ==
    IF IsS3 THEN FirstMatch.s3_key_ignored # << >>
                 /\ IsSubstr(FirstMatch.s3_key_ignored, record.s3key)
    ELSE IsSubstr(sControlMessage, Item(rawdata_dict, kMessageType).v)

IgnoredAsUnknown ==
    /\ IsStr(ignore)
    /\ ignore.v = IF IsS3 THEN S3UnknownReason \o record.s3key ELSE KinesisUnknownReason

(* C4: a batch whose source matches no section has the log type 'unknown',   *)
(* is ignored with a reason and gives no entry to the parser; a batch whose  *)
(* source matches a section (the first in the order of the configuration)    *)
(* and whose ignore rule does not match is not ignored as unknown             *)
C4_UnknownIffNoMatch ==
    Built =>
        /\ ~Matched =>
            /\ Logtype = N.sUnknown
            /\ IsStr(ignore) /\ ignore.v # << >>
            /\ gen = None /\ parserPc = "idle"
            /\ adapterPc = "done" => outcomes = <<Outcome("Ignored", ignore)>>
        /\ (Matched /\ ~IgnoreRuleMatches) => ~IgnoredAsUnknown

----------------------------------------------------------------------------
(* The cloud defaults of transform_to_ecs, over configurations with and      *)
(* without a cloud provider and with and without mappings below cloud        *)

pCloudAccountId == <<"c", "l", "o", "u", "d", ".", "a", "c", "c", "o", "u", "n", "t", ".", "i", "d">>
pCloudAccountName == <<"c", "l", "o", "u", "d", ".", "a", "c", "c", "o", "u", "n", "t", ".", "n", "a", "m", "e">>
pCloudRegion == <<"c", "l", "o", "u", "d", ".", "r", "e", "g", "i", "o", "n">>

CloudKeys ==
    Obj(<< <<pCloudAccountId, <<"a", "c", "c", "t">>>>, <<pCloudAccountName, <<"n", "a", "m", "e">>>>, <<pCloudRegion, <<"r", "e", "g">>>> >>)

CloudMappings ==
    { << >>, pCloudAccountId, pCloudAccountName, pCloudRegion,
      pCloudAccountName \o <<" ">> \o pCloudAccountId \o <<" ">> \o pCloudRegion }

CloudConfigs ==
    { [BaseConfig EXCEPT !.cloud_provider = p, !.ecs = e, !.keys = CloudKeys] :
        p \in {<<"a", "w", "s">>, << >>}, e \in CloudMappings }

CloudFields == << <<<<"a", "c", "c", "t">>, S(<<"1", "1", "1">>)>>, <<<<"n", "a", "m", "e">>, S(<<"n", "m">>)>>, <<<<"r", "e", "g">>, S(<<"e", "u">>)>> >>

(* the entries that hold the fields i of CloudFields for the i of a set *)
CloudDocs ==
    { [k \in {CloudFields[i][1] : i \in has} |->
          CloudFields[CHOOSE i \in has : CloudFields[i][1] = k][2]] : has \in SUBSET (1..3) }

CloudMetas ==
    { [BaseMeta EXCEPT !.accountid = a, !.region = r] :
        a \in {None, S(<<"2", "2", "2">>)}, r \in {None, S(<<"u", "s">>)} }

InitCloud ==
    /\ parserPc = "cleaned"
    /\ logconfig \in CloudConfigs
    /\ meta \in CloudMetas
    /\ \E d \in CloudDocs : logdata = PyDict(d) /\ logdata_dict = d
    /\ utcnow = None
    /\ timestamp = None
    /\ event_ingested = None
    /\ output = None
    /\ PathIdle
    /\ AdapterIdle

NextCloud == TransformToEcs

SpecCloud == InitCloud /\ [][NextCloud]_vars

(* the mapping of the destination key gave a value for the entry *)
EcsMapped(key) ==
    /\ \E i \in 1..Len(SplitWs(logconfig.ecs)) : SplitWs(logconfig.ecs)[i] = key
    /\ Truthy(get_value_from_dict(logdata, logconfig.keys[key]))

(* C11: after schema mapping, with any configuration, cloud.account.id that  *)
(* was not mapped is the batch's account id when the batch has one,          *)
(* cloud.region that was not mapped is the batch's region or 'unknown', and  *)
(* the mapped fields below cloud.account are kept                            *)
C11_CloudDefaults ==
    parserPc = "ecs" =>
        /\ (~EcsMapped(pCloudAccountId) /\ Truthy(meta.accountid))
            => ValueAt(PyDict(logdata_dict), SplitDot(pCloudAccountId)) = meta.accountid
        /\ ~EcsMapped(pCloudRegion)
            => ValueAt(PyDict(logdata_dict), SplitDot(pCloudRegion))
                 = IF Truthy(meta.region) THEN meta.region ELSE PyStr(N.sUnknown)
        /\ EcsMapped(pCloudAccountName)
            => ValueAt(PyDict(logdata_dict), SplitDot(pCloudAccountName))
                 = get_value_from_dict(logdata, logconfig.keys[pCloudAccountName])

----------------------------------------------------------------------------
(* The address validation of transform_to_ecs, over destinations that end in *)
(* '.ip', hold '.ip' elsewhere, or do not hold it                            *)

pSourceIp == <<"s", "o", "u", "r", "c", "e", ".", "i", "p">>
pHostIpv4 == <<"h", "o", "s", "t", ".", "i", "p", "v", "4">>
pSourceAddress == <<"s", "o", "u", "r", "c", "e", ".", "a", "d", "d", "r", "e", "s", "s">>
pZipCode == <<"z", "i", "p", ".", "c", "o", "d", "e">>
pEventModule == <<"e", "v", "e", "n", "t", ".", "m", "o", "d", "u", "l", "e">>

IpDests == {pSourceIp, pHostIpv4, pSourceAddress, pZipCode}

(* one destination mapped from src, before or after event.module *)
IpConfigs ==
    { [BaseConfig EXCEPT
          !.ecs = IF first THEN dest \o <<" ">> \o pEventModule ELSE pEventModule \o <<" ">> \o dest,
          !.keys = Obj(<< <<dest, <<"s", "r", "c">>>>, <<pEventModule, <<"m", "o", "d">>>> >>)] :
        dest \in IpDests, first \in BOOLEAN }

IpSources ==
    << S(<<"8", ".", "8", ".", "8", ".", "8">>), S(<<":", ":", "1">>), S(<<"9", "9", "9">>), S(<<"h", "o", "s", "t">>), S(<<"1", "0", ".", "1", ".", "1">>), PyInt(5),
       PyDict(One(kA, S(<<"1", ".", "1", ".", "1", ".", "1">>))) >>

IpDocs ==
    { Obj(<< <<<<"s", "r", "c">>, IpSources[i]>>, <<<<"m", "o", "d">>, S(<<"m", "2">>)>> >>) : i \in 1..Len(IpSources) }
        \cup { Obj(<< <<<<"s", "r", "c">>, IpSources[i]>> >>) : i \in 1..Len(IpSources) }
        \cup { Obj(<< <<<<"m", "o", "d">>, S(<<"m", "2">>)>> >>) }

InitIp ==
    /\ parserPc = "cleaned"
    /\ logconfig \in IpConfigs
    /\ meta \in CloudMetas
    /\ \E d \in IpDocs : logdata = PyDict(d) /\ logdata_dict = d
    /\ utcnow = None
    /\ timestamp = None
    /\ event_ingested = None
    /\ output = None
    /\ PathIdle
    /\ AdapterIdle

NextIp == TransformToEcs

SpecIp == InitIp /\ [][NextIp]_vars

EndsWith(s, suffix) ==
    /\ Len(s) >= Len(suffix)
    /\ SubSeq(s, Len(s) - Len(suffix) + 1, Len(s)) = suffix

(* the value that the mapping of the destination resolves for the entry *)
EcsSource(dest) == get_value_from_dict(logdata, logconfig.keys[dest])

(* C12: schema mapping does not fail the entry; a destination ending in      *)
(* '.ip' whose value is not an address is left out of the document, and      *)
(* every other destination with a value holds the value of its fragment, so  *)
(* a destination that does not end in '.ip' is never discarded               *)
C12_IpValidation ==
    parserPc # "cleaned" =>
        /\ parserPc = "ecs"
        /\ \A i \in 1..Len(SplitWs(logconfig.ecs)) :
            \E dest \in {SplitWs(logconfig.ecs)[i]} :
                Truthy(EcsSource(dest)) =>
                    IF EndsWith(dest, N.sDotIp) /\ ~IsIpAddress(EcsSource(dest))
                    THEN ValueAt(PyDict(logdata_dict), SplitDot(dest)) = Missing
                    ELSE ValueAt(PyDict(logdata_dict), SplitDot(dest))
                           = ValueAt(put_value_into_dict(dest, EcsSource(dest)), SplitDot(dest))

----------------------------------------------------------------------------
(* merge applied twice with the same b: dct is the dict a, which merge       *)
(* changes in place, new_dict is b and got keeps the result of the first     *)
(* application                                                                *)

MergeLeaves == {S(<<"x">>), S(<<"1">>), PyInt(1)}

MapsOver(values) ==
    { f \in UNION { [ks -> values] : ks \in SUBSET {kA, kB} } : TRUE }

MergeInner == { PyDict(f) : f \in MapsOver(MergeLeaves) }

MergeMaps == MapsOver(MergeLeaves \cup MergeInner)

InitMerge ==
    /\ pathPc = "start"
    /\ dct \in MergeMaps
    /\ new_dict \in MergeMaps
    /\ key_str = << >>
    /\ v_in = None
    /\ xkeys_list = << >>
    /\ got = None
    /\ ParserIdle
    /\ AdapterIdle

Merge ==
    /\ pathPc = "start"
    /\ dct' = merge(dct, new_dict)
    /\ got' = merge(dct, new_dict)
    /\ pathPc' = "merged"
    /\ UNCHANGED <<key_str, v_in, new_dict, xkeys_list, parserVars, adapterVars>>

MergeAgain ==
    /\ pathPc = "merged"
    /\ dct' = merge(dct, new_dict)
    /\ pathPc' = "remerged"
    /\ UNCHANGED <<key_str, v_in, new_dict, xkeys_list, got, parserVars, adapterVars>>

NextMerge == Merge \/ MergeAgain

SpecMerge == InitMerge /\ [][NextMerge]_vars

(* C13: merging b a second time changes nothing: merge(merge(a, b), b) is    *)
(* merge(a, b), also when a and b hold a map and a scalar under one key      *)
C13_MergeIdempotent ==
    pathPc = "remerged" => dct = got

(* b has been merged twice into an a that holds a scalar where b holds a map *)
(* and a map where b holds a scalar, and the merge changed a                  *)
C13_Witness ==
    /\ pathPc = "remerged"
    /\ DOMAIN new_dict = {kA, kB}
    /\ IsDict(new_dict[kA]) /\ ~IsDict(new_dict[kB])
    /\ dct[kA] = new_dict[kA]
    /\ dct[kB] = new_dict[kB]
    /\ dct = got

----------------------------------------------------------------------------
(* C14: the log type configuration is read-only while entries are parsed:    *)
(* no stage of the parser writes to logconfig, so the configuration after a  *)
(* stage is the configuration before it, with the legacy timestamp setting   *)
(* as with any other                                                          *)
C14_ConfigReadOnly == [][logconfig' = logconfig]_vars

----------------------------------------------------------------------------
(* the entry handed over is an event with extractedFields *)
CarriesExtractedFields == IsDict(logdata) /\ N.kExtractedFields \in DOMAIN logdata.v

(* C15: in a streaming batch the file format reported for an entry is        *)
(* 'json' for an event that carries extractedFields and the configured       *)
(* file_format of the log type for an event that does not, whatever the      *)
(* events yielded before it                                                   *)
C15_FormatPerRecord ==
    (adapterPc = "iterating" /\ ~IsS3 /\ parserPc = "new") =>
        meta.logformat = IF CarriesExtractedFields THEN N.sJson
                         ELSE SectionOf(config, Logtype).file_format

====
